---------------------------- MODULE Spec2Model ----------------------------
(***************************************************************************)
(* A model of the OPT compilation core of pyopenehr-am:                    *)
(*   openehr_am/opt/dependencies.py  graph, cycle detection, ordering      *)
(*   openehr_am/opt/compiler.py      slot filling, scope, compile_opt      *)
(*   openehr_am/opt/flattening.py    specialisation flattening             *)
(*                                                                         *)
(* Strings are sequences of character codes, so that Python's string and   *)
(* tuple comparisons (sorted, min) are computed and not assumed.           *)
(***************************************************************************)
EXTENDS Integers, Sequences, FiniteSets, TLC

(***************************************************************************)
(* Bounds of the model.                                                    *)
(***************************************************************************)
\* longest archetype collection handed to dependency_order_for_archetypes
MaxArchetypes == 3
\* longest slot pattern handed to _pattern_matches
MaxPatternLen == 3
\* most include patterns and most exclude patterns of one archetype slot
MaxIncludes == 2
MaxExcludes == 2
\* frames the interpreter allows flatten_specialisation_definition to nest
\* (sys.getrecursionlimit(), scaled to the repositories of the model)
RecursionLimit == 4

(***************************************************************************)
(* Strings.  "a" = 1, "b" = 2; an id is a non-empty string (the ADL parser *)
(* strips the id line and skips empty lines).  None is a value that is no  *)
(* string of the alphabet.                                                 *)
(***************************************************************************)
None == <<0>>

\* None where an object is expected (a definition, an interval, a span, an OPT)
NoObject == [class |-> "NoneType"]

\* "a", "ab", "b": the prefix pair a/ab and the pair ab/b make the
\* lexicographic order differ from the order by length.
ArchetypeIds == {<<1>>, <<1, 2>>, <<2>>}

Min2(a, b) == IF a <= b THEN a ELSE b

\* Python str.__lt__: compare code points left to right, a proper prefix is smaller.
StrLess(s, t) ==
    \E i \in 1..(Min2(Len(s), Len(t)) + 1) :
        /\ \A j \in 1..(i - 1) : s[j] = t[j]
        /\ \/ i > Len(s) /\ i <= Len(t)
           \/ i <= Len(s) /\ i <= Len(t) /\ s[i] < t[i]

\* Python tuple.__lt__ on tuples of str.
TupleLess(s, t) ==
    \E i \in 1..(Min2(Len(s), Len(t)) + 1) :
        /\ \A j \in 1..(i - 1) : s[j] = t[j]
        /\ \/ i > Len(s) /\ i <= Len(t)
           \/ i <= Len(s) /\ i <= Len(t) /\ StrLess(s[i], t[i])

\* sorted(S) for a set of strings: ascending, each element once.
RECURSIVE SortedStrs(_)
SortedStrs(S) ==
    IF S = {} THEN <<>>
    ELSE LET m == CHOOSE x \in S : \A y \in S \ {x} : StrLess(x, y)
         IN  <<m>> \o SortedStrs(S \ {m})

\* list.sort() / sorted(list) on a list of strings (stable insertion sort).
RECURSIVE InsertStr(_, _)
InsertStr(sorted, x) ==
    IF sorted = <<>> THEN <<x>>
    ELSE IF StrLess(x, Head(sorted)) THEN <<x>> \o sorted
    ELSE <<Head(sorted)>> \o InsertStr(Tail(sorted), x)

RECURSIVE SortList(_)
SortList(l) ==
    IF l = <<>> THEN <<>> ELSE InsertStr(SortList(SubSeq(l, 1, Len(l) - 1)), l[Len(l)])

Range(f) == {f[i] : i \in DOMAIN f}

(***************************************************************************)
(* Issues.  message is kept as its fixed text and the tuple of values the  *)
(* f-string renders into it.                                               *)
(***************************************************************************)
Issue(code, severity, text, args, node_id) ==
    [code |-> code, severity |-> severity, text |-> text, args |-> args,
     node_id |-> node_id]

HasError(issues) == \E i \in 1..Len(issues) : issues[i].severity = "ERROR"

(***************************************************************************)
(* dependencies.py                                                         *)
(***************************************************************************)
IdsOf(archs) == {archs[i].archetype_id : i \in 1..Len(archs)}

DistinctIds(archs) ==
    \A i, j \in 1..Len(archs) : archs[i].archetype_id = archs[j].archetype_id => i = j

\* by_id: the first archetype of each id (lines 46-50)
FirstIndex(archs, id) ==
    CHOOSE i \in 1..Len(archs) :
        /\ archs[i].archetype_id = id
        /\ \A j \in 1..(i - 1) : archs[j].archetype_id # id

by_id(archs) ==
    [id \in {archs[i].archetype_id : i \in 1..Len(archs)} |-> archs[FirstIndex(archs, id)]]

GraphNodes(archs) == SortedStrs(DOMAIN by_id(archs))

\* `if parent:` is false for None and for the empty string
Truthy(s) == s # None /\ s # <<>>

build_archetype_dependency_graph(archs) ==
    LET idx == by_id(archs)
        nodes == GraphNodes(archs)
    IN  [nodes |-> nodes,
         edges |-> [k \in DOMAIN idx |->
                      LET parent == idx[k].parent_archetype_id
                          deps == IF Truthy(parent) THEN {parent} ELSE {}
                      IN  SortedStrs(deps)]]


\* rotations = [cycle_nodes[i:] + cycle_nodes[:i] for i in range(len(cycle_nodes))]
Rotation(cycle_nodes, i) ==
    SubSeq(cycle_nodes, i + 1, Len(cycle_nodes)) \o SubSeq(cycle_nodes, 1, i)

Rotations(cycle_nodes) == {Rotation(cycle_nodes, i) : i \in 0..(Len(cycle_nodes) - 1)}

\* variant that keeps the cycle as the traversal found it
UnrotatedCycle(cycle_nodes) == cycle_nodes

\* _canonical_cycle: min(rotations), () for the empty list
_canonical_cycle(cycle_nodes) ==
    IF cycle_nodes = <<>> THEN <<>>
    ELSE CHOOSE r \in Rotations(cycle_nodes) :
            \A q \in Rotations(cycle_nodes) \ {r} : TupleLess(r, q)

\* variant that stops reporting after the first cycle
EmitFirstCycleOnly(cycle, st) ==
    LET canonical == _canonical_cycle(cycle)
    IN  IF canonical = <<>> \/ st.seen_cycles # {} THEN st
        ELSE [st EXCEPT
                !.seen_cycles = @ \cup {canonical},
                !.out = Append(@, Issue("OPT705", "ERROR", "Dependency cycle detected",
                                        canonical \o <<canonical[1]>>, None))]

\* _emit_cycle: one OPT705 per canonical cycle not seen before;
\* rendered = " -> ".join([*canonical, canonical[0]])
_emit_cycle(cycle, st) ==
    LET canonical == _canonical_cycle(cycle)
    IN  IF canonical = <<>> \/ canonical \in st.seen_cycles THEN st
        ELSE [st EXCEPT
                !.seen_cycles = @ \cup {canonical},
                !.out = Append(@, Issue("OPT705", "ERROR", "Dependency cycle detected",
                                        canonical \o <<canonical[1]>>, None))]

\* _dfs(n), with the for loop over graph.edges[n] as DfsDeps
RECURSIVE _dfs(_, _, _), DfsDeps(_, _, _, _)
DfsDeps(graph, deps, i, st) ==
    IF i > Len(deps) THEN st
    ELSE LET dep == deps[i]
         IN  IF dep \notin Range(graph.nodes) THEN DfsDeps(graph, deps, i + 1, st)
             ELSE IF dep \in st.visiting
                  THEN LET start == st.index_in_stack[dep]
                       IN  DfsDeps(graph, deps, i + 1,
                                   _emit_cycle(SubSeq(st.stack, start + 1, Len(st.stack)), st))
             ELSE IF dep \in st.visited THEN DfsDeps(graph, deps, i + 1, st)
             ELSE DfsDeps(graph, deps, i + 1, _dfs(graph, dep, st))

_dfs(graph, n, st) ==
    LET entered == [st EXCEPT
                      !.visiting = @ \cup {n},
                      !.index_in_stack = (n :> Len(st.stack)) @@ @,
                      !.stack = Append(@, n)]
        after == DfsDeps(graph, graph.edges[n], 1, entered)
    IN  [after EXCEPT
           !.stack = SubSeq(@, 1, Len(@) - 1),
           !.index_in_stack = [k \in (DOMAIN @) \ {n} |-> @[k]],
           !.visiting = @ \ {n},
           !.visited = @ \cup {n}]

DfsInit ==
    [visiting |-> {}, visited |-> {}, stack |-> <<>>, index_in_stack |-> <<>>,
     seen_cycles |-> {}, out |-> <<>>]

\* for n in graph.nodes: if n in visited: continue; _dfs(n)
RECURSIVE DfsRoots(_, _, _)
DfsRoots(graph, i, st) ==
    IF i > Len(graph.nodes) THEN st
    ELSE IF graph.nodes[i] \in st.visited THEN DfsRoots(graph, i + 1, st)
    ELSE DfsRoots(graph, i + 1, _dfs(graph, graph.nodes[i], st))

DfsFinal(graph) == DfsRoots(graph, 1, DfsInit)

detect_dependency_cycles(graph) == DfsFinal(graph).out

(* Kahn's algorithm, lines 155-177 *)
\* variant without the filter `if d in node_set`
AllDeps(graph, n) == graph.edges[n]

InScopeDeps(graph, n) ==
    SelectSeq(graph.edges[n], LAMBDA d : d \in Range(graph.nodes))

\* dependents[d].append(n) for n in graph.nodes, in that order
Dependents(graph, d) ==
    SelectSeq(graph.nodes, LAMBDA n : d \in Range(InScopeDeps(graph, n)))

Indegree(graph) == [n \in Range(graph.nodes) |-> Len(InScopeDeps(graph, n))]

\* the inner loop: for child in sorted(dependents[n])
RECURSIVE ReleaseChildren(_, _, _)
ReleaseChildren(children, i, k) ==
    IF i > Len(children) THEN k
    ELSE LET child == children[i]
             deg == k.indegree[child] - 1
         IN  ReleaseChildren(children, i + 1,
                [k EXCEPT !.indegree[child] = deg,
                          !.ready = IF deg = 0 THEN Append(@, child) ELSE @])

\* variant without the trailing ready.sort()
KahnStepNoSort(graph, k) ==
    LET n == Head(k.ready)
        popped == [k EXCEPT !.ready = Tail(@), !.order = Append(@, n)]
    IN  ReleaseChildren(SortList(Dependents(graph, n)), 1, popped)

\* one iteration of `while ready:`
KahnStep(graph, k) ==
    LET n == Head(k.ready)
        popped == [k EXCEPT !.ready = Tail(@), !.order = Append(@, n)]
        released == ReleaseChildren(SortList(Dependents(graph, n)), 1, popped)
    IN  [released EXCEPT !.ready = SortList(@)]

\* variant that starts with every node ready
KahnInitAllReady(graph) ==
    [indegree |-> Indegree(graph), ready |-> SortList(graph.nodes), order |-> <<>>]

KahnInit(graph) ==
    [indegree |-> Indegree(graph),
     ready |-> SortList(SelectSeq(graph.nodes, LAMBDA n : Indegree(graph)[n] = 0)),
     order |-> <<>>]

RECURSIVE KahnLoop(_, _)
KahnLoop(graph, k) ==
    IF k.ready = <<>> THEN k ELSE KahnLoop(graph, KahnStep(graph, k))

IncompleteIssue ==
    Issue("OPT705", "ERROR", "Dependency cycle detected (incomplete topological order)",
          <<>>, None)

\* dependency_order_for_archetypes: (order, issues)
dependency_order_for_archetypes(archs) ==
    LET graph == build_archetype_dependency_graph(archs)
        cycle_issues == detect_dependency_cycles(graph)
    IN  IF cycle_issues # <<>> THEN [order |-> <<>>, issues |-> cycle_issues]
        ELSE LET k == KahnLoop(graph, KahnInit(graph))
             IN  IF Len(k.order) # Len(graph.nodes)
                 THEN [order |-> <<>>, issues |-> <<IncompleteIssue>>]
                 ELSE [order |-> k.order, issues |-> <<>>]


(***************************************************************************)
(* aom/constraints.py: the constraint tree.  Every object is a record with *)
(* the fields of its class; the fields of the other classes hold their     *)
(* defaults, so that objects of different classes compare as unequal.      *)
(***************************************************************************)
CComplexObject(rm_type_name, node_id, occurrences, attributes, span) ==
    [class |-> "CComplexObject", rm_type_name |-> rm_type_name, node_id |-> node_id,
     occurrences |-> occurrences, attributes |-> attributes, constraint |-> NoObject,
     includes |-> <<>>, excludes |-> <<>>, span |-> span]

CPrimitiveObject(rm_type_name, node_id, occurrences, constraint, span) ==
    [class |-> "CPrimitiveObject", rm_type_name |-> rm_type_name, node_id |-> node_id,
     occurrences |-> occurrences, attributes |-> <<>>, constraint |-> constraint,
     includes |-> <<>>, excludes |-> <<>>, span |-> span]

CArchetypeSlot(rm_type_name, node_id, occurrences, includes, excludes, span) ==
    [class |-> "CArchetypeSlot", rm_type_name |-> rm_type_name, node_id |-> node_id,
     occurrences |-> occurrences, attributes |-> <<>>, constraint |-> NoObject,
     includes |-> includes, excludes |-> excludes, span |-> span]

CAttribute(rm_attribute_name, children, existence, cardinality, span) ==
    [rm_attribute_name |-> rm_attribute_name, children |-> children,
     existence |-> existence, cardinality |-> cardinality, span |-> span]

ArchetypeSlotPattern(kind, value) == [kind |-> kind, value |-> value]

(***************************************************************************)
(* compiler.py: slot patterns.                                             *)
(*                                                                         *)
(* Characters of a pattern: 1 = a, 2 = b, 3 = '.', 4 = '*', and 5 for the  *)
(* repetition {4294967296}.  re.fullmatch(pattern, value) compiles the     *)
(* pattern left to right: a '*' with nothing to repeat, or after another   *)
(* repeat, raises re.error; a repetition count of MAXREPEAT or more raises *)
(* OverflowError, which is no re.error.                                    *)
(***************************************************************************)
RECURSIVE ReCompile(_, _, _)
ReCompile(pattern, i, items) ==
    IF i > Len(pattern) THEN [status |-> "ok", items |-> items]
    ELSE IF pattern[i] = 5 THEN [status |-> "OverflowError", items |-> <<>>]
    ELSE IF pattern[i] = 4
         THEN IF items = <<>> \/ items[Len(items)].star
              THEN [status |-> "re.error", items |-> <<>>]
              ELSE ReCompile(pattern, i + 1,
                             [items EXCEPT ![Len(items)].star = TRUE])
    ELSE ReCompile(pattern, i + 1, Append(items, [atom |-> pattern[i], star |-> FALSE]))

AtomMatches(atom, ch) == atom = 3 \/ atom = ch

\* the match of items[k..] against value[j..], up to the end of value
RECURSIVE ReFullMatch(_, _, _, _)
ReFullMatch(items, k, value, j) ==
    IF k > Len(items) THEN j > Len(value)
    ELSE IF items[k].star
         THEN \/ ReFullMatch(items, k + 1, value, j)
              \/ /\ j <= Len(value)
                 /\ AtomMatches(items[k].atom, value[j])
                 /\ ReFullMatch(items, k, value, j + 1)
    ELSE /\ j <= Len(value)
         /\ AtomMatches(items[k].atom, value[j])
         /\ ReFullMatch(items, k + 1, value, j + 1)

\* _pattern_matches: "True", "False", or the exception that leaves the function
_pattern_matches(value, kind, pattern) ==
    IF kind = "exact" THEN (IF value = pattern THEN "True" ELSE "False")
    ELSE IF kind = "regex"
         THEN LET c == ReCompile(pattern, 1, <<>>)
              IN  IF c.status = "re.error" THEN "False"
                  ELSE IF c.status # "ok" THEN c.status
                  ELSE IF ReFullMatch(c.items, 1, value, 1) THEN "True" ELSE "False"
    ELSE "False"

\* any(_pattern_matches(archetype_id, p.kind, p.value) for p in patterns):
\* the generator stops at the first True, an exception ends it
RECURSIVE AnyPatternMatches(_, _, _)
AnyPatternMatches(archetype_id, patterns, i) ==
    IF i > Len(patterns) THEN "False"
    ELSE LET r == _pattern_matches(archetype_id, patterns[i].kind, patterns[i].value)
         IN  IF r = "False" THEN AnyPatternMatches(archetype_id, patterns, i + 1) ELSE r

\* _slot_matches
_slot_matches(archetype_id, slot) ==
    LET inc == IF slot.includes # <<>>
               THEN AnyPatternMatches(archetype_id, slot.includes, 1)
               ELSE "True"
    IN  IF inc # "True" THEN inc
        ELSE LET exc == IF slot.excludes # <<>>
                        THEN AnyPatternMatches(archetype_id, slot.excludes, 1)
                        ELSE "False"
             IN  IF exc = "True" THEN "False"
                 ELSE IF exc = "False" THEN "True"
                 ELSE exc

\* _iter_cobjects: the object, then the objects under its attributes, in order
RECURSIVE _iter_cobjects(_), IterChildren(_, _), IterAttributes(_, _)
IterChildren(children, i) ==
    IF i > Len(children) THEN <<>>
    ELSE _iter_cobjects(children[i]) \o IterChildren(children, i + 1)

IterAttributes(attributes, i) ==
    IF i > Len(attributes) THEN <<>>
    ELSE IterChildren(attributes[i].children, 1) \o IterAttributes(attributes, i + 1)

_iter_cobjects(node) ==
    IF node.class = "CComplexObject"
    THEN <<node>> \o IterAttributes(node.attributes, 1)
    ELSE <<node>>

\* matches = [a.archetype_id for a in repo.archetypes if _slot_matches(...)]
RECURSIVE SlotMatchList(_, _, _, _)
SlotMatchList(archs, slot, i, matches) ==
    IF i > Len(archs) THEN [raised |-> "no", matches |-> matches]
    ELSE LET r == _slot_matches(archs[i].archetype_id, slot)
         IN  IF r = "True"
             THEN SlotMatchList(archs, slot, i + 1, Append(matches, archs[i].archetype_id))
             ELSE IF r = "False" THEN SlotMatchList(archs, slot, i + 1, matches)
             ELSE [raised |-> r, matches |-> <<>>]

\* ", ".join(p.value for p in patterns) or "<none>"
RECURSIVE JoinValues(_, _)
JoinValues(patterns, i) ==
    IF i > Len(patterns) THEN <<>>
    ELSE IF i = Len(patterns) THEN patterns[i].value
    ELSE patterns[i].value \o <<44, 32>> \o JoinValues(patterns, i + 1)

PatternText(patterns) ==
    IF JoinValues(patterns, 1) = <<>> THEN <<60, 110, 111, 110, 101, 62>>
    ELSE JoinValues(patterns, 1)

SlotIssue(node) ==
    Issue("OPT720", "ERROR", "Slot filling failed: no matching archetype",
          <<PatternText(node.includes), PatternText(node.excludes)>>, node.node_id)

\* chosen = sorted(matches)[0]
ChooseMatch(matches) == SortList(matches)[1]

\* the body of `for node in _iter_cobjects(definition)` for one node;
\* acc = [raised, selected, issues]
FillSlotsNode(node, archs, acc) ==
    IF node.class # "CArchetypeSlot" THEN acc
    ELSE LET m == SlotMatchList(archs, node, 1, <<>>)
         IN  IF m.raised # "no" THEN [acc EXCEPT !.raised = m.raised]
             ELSE IF m.matches = <<>>
                  THEN [acc EXCEPT !.issues = Append(@, SlotIssue(node))]
             ELSE [acc EXCEPT !.selected = Append(@, ChooseMatch(m.matches))]

RECURSIVE FillSlotsLoop(_, _, _, _)
FillSlotsLoop(nodes, i, archs, acc) ==
    IF i > Len(nodes) \/ acc.raised # "no" THEN acc
    ELSE FillSlotsLoop(nodes, i + 1, archs, FillSlotsNode(nodes[i], archs, acc))

FillSlotsInit == [raised |-> "no", selected |-> <<>>, issues |-> <<>>]

\* return tuple(sorted(set(selected)))
SelectedIds(selected) == SortedStrs(Range(selected))

\* _fill_slots: [raised, selected, issues]
_fill_slots(definition, archs) ==
    LET acc == FillSlotsLoop(_iter_cobjects(definition), 1, archs, FillSlotsInit)
    IN  [acc EXCEPT !.selected = IF acc.raised = "no" THEN SelectedIds(@) ELSE <<>>]

(***************************************************************************)
(* flattening.py: merging a child definition over its parent's.            *)
(* Path characters: 47 = '/', 91 = '[', 93 = ']'.                          *)
(***************************************************************************)
Interval(lower, upper, span) ==
    [class |-> "Interval", lower |-> lower, upper |-> upper, span |-> span]

Cardinality_(occurrences, is_ordered, is_unique, span) ==
    [class |-> "Cardinality", occurrences |-> occurrences, is_ordered |-> is_ordered,
     is_unique |-> is_unique, span |-> span]

\* base.rstrip("/")
RECURSIVE RStripSlash(_)
RStripSlash(base) ==
    IF base # <<>> /\ base[Len(base)] = 47
    THEN RStripSlash(SubSeq(base, 1, Len(base) - 1))
    ELSE base

\* variant: the attribute always follows a '/', under the root too
JoinWithSlash(base, attr, node_id) ==
    LET p1 == IF Truthy(attr) THEN base \o <<47>> \o attr ELSE base
    IN  IF Truthy(node_id) THEN p1 \o <<91>> \o node_id \o <<93>> ELSE p1

\* _join_path
_join_path(base, attr, node_id) ==
    LET p0 == IF RStripSlash(base) = <<>> THEN <<47>> ELSE RStripSlash(base)
        p1 == IF Truthy(attr)
              THEN (IF p0 = <<47>> THEN <<47>> \o attr ELSE p0 \o <<47>> \o attr)
              ELSE p0
    IN  IF Truthy(node_id) THEN p1 \o <<91>> \o node_id \o <<93>> ELSE p1

\* _opt730; the message is its fixed text and the values rendered into it
_opt730(text, args) == Issue("OPT730", "ERROR", text, args, None)

\* `child.x or parent.x` for an object, a string and a tuple
OrObject(c, p) == IF c # NoObject THEN c ELSE p
OrString(c, p) == IF Truthy(c) THEN c ELSE p
OrTuple(c, p) == IF c # <<>> THEN c ELSE p

\* _merge_interval
_merge_interval(parent, child, path) ==
    IF child = NoObject THEN [value |-> parent, issues |-> <<>>]
    ELSE IF parent = NoObject THEN [value |-> child, issues |-> <<>>]
    ELSE IF child # parent
         THEN [value |-> parent, issues |-> <<_opt730("interval differs", <<path>>)>>]
    ELSE [value |-> parent, issues |-> <<>>]

\* _merge_cardinality
_merge_cardinality(parent, child, path) ==
    IF child = NoObject THEN [value |-> parent, issues |-> <<>>]
    ELSE IF parent = NoObject THEN [value |-> child, issues |-> <<>>]
    ELSE IF child # parent
         THEN [value |-> parent, issues |-> <<_opt730("cardinality differs", <<path>>)>>]
    ELSE [value |-> parent, issues |-> <<>>]

\* {a.rm_attribute_name: a for a in attributes}: the last attribute of a name
AttributeNames(attributes) == {attributes[i].rm_attribute_name : i \in 1..Len(attributes)}

AttributeByName(attributes, name) ==
    attributes[CHOOSE i \in 1..Len(attributes) :
                  /\ attributes[i].rm_attribute_name = name
                  /\ \A j \in (i + 1)..Len(attributes) : attributes[j].rm_attribute_name # name]

\* key(o) of _merge_children, without its constant third component;
\* "node_id" and "rm_type" as strings of character codes
ChildKey(o) ==
    IF o.node_id # None
    THEN <<<<110, 111, 100, 101, 95, 105, 100>>, o.node_id>>
    ELSE <<<<114, 109, 95, 116, 121, 112, 101>>, o.rm_type_name>>

\* the two loops that fill p_by and c_by; side is "parent" or "child"
RECURSIVE ChildrenByKey(_, _, _, _, _)
ChildrenByKey(children, i, side, path, acc) ==
    IF i > Len(children) THEN acc
    ELSE LET o == children[i]
             k == ChildKey(o)
         IN  IF k \in DOMAIN acc.by /\ acc.by[k].rm_type_name # o.rm_type_name
             THEN ChildrenByKey(children, i + 1, side, path,
                    [acc EXCEPT !.issues =
                        Append(@, _opt730(IF side = "parent"
                                          THEN "duplicate node identity in parent"
                                          ELSE "duplicate node identity in child",
                                          <<path>>))])
             ELSE ChildrenByKey(children, i + 1, side, path,
                    [acc EXCEPT !.by = (k :> o) @@ @])

\* sorted(keys): ascending tuples of strings
RECURSIVE SortedTuples(_)
SortedTuples(S) ==
    IF S = {} THEN <<>>
    ELSE LET m == CHOOSE x \in S : \A y \in S \ {x} : TupleLess(x, y)
         IN  <<m>> \o SortedTuples(S \ {m})

\* _sorted_children: stable sort by (rm_type_name, node_id or "")
SortKey(o) == <<o.rm_type_name, IF Truthy(o.node_id) THEN o.node_id ELSE <<>>>>

RECURSIVE InsertChild(_, _)
InsertChild(sorted, x) ==
    IF sorted = <<>> THEN <<x>>
    ELSE IF TupleLess(SortKey(x), SortKey(Head(sorted))) THEN <<x>> \o sorted
    ELSE <<Head(sorted)>> \o InsertChild(Tail(sorted), x)

RECURSIVE _sorted_children(_)
_sorted_children(children) ==
    IF children = <<>> THEN <<>>
    ELSE InsertChild(_sorted_children(SubSeq(children, 1, Len(children) - 1)),
                     children[Len(children)])

\* _merge_objects and _merge_children; each returns its value and its issues
RECURSIVE _merge_objects(_, _, _), _merge_children(_, _, _),
          MergeAttributes(_, _, _, _, _, _), MergeKeys(_, _, _, _, _, _)

\* variant: once a conflict is known the later ones are not added
MergedAttributeFirstConflict(acc, name, p_attr, c_attr, ex, ca, ch) ==
    [attrs |-> Append(acc.attrs,
                      CAttribute(name, ch.value, ex.value, ca.value,
                                 OrObject(c_attr.span, p_attr.span))),
     issues |-> IF acc.issues # <<>> THEN acc.issues
                ELSE IF ex.issues # <<>> THEN ex.issues
                ELSE IF ca.issues # <<>> THEN ca.issues
                ELSE ch.issues]

\* lines 353-379: an attribute both sides have, from its merged parts
MergedAttribute(acc, name, p_attr, c_attr, ex, ca, ch) ==
    [attrs |-> Append(acc.attrs,
                      CAttribute(name, ch.value, ex.value, ca.value,
                                 OrObject(c_attr.span, p_attr.span))),
     issues |-> acc.issues \o ex.issues \o ca.issues \o ch.issues]

\* variant: an attribute the parent lacks is dropped, one it has is kept as is
MergeAttributeOfParent(name, parent, child, attr_path, acc) ==
    IF name \notin AttributeNames(parent.attributes) THEN acc
    ELSE [acc EXCEPT !.attrs = Append(@, AttributeByName(parent.attributes, name))]

\* one iteration of `for name in sorted(parent names | child names)`
MergeAttribute(name, parent, child, attr_path, acc) ==
    IF name \notin AttributeNames(parent.attributes)
    THEN [acc EXCEPT !.attrs = Append(@, AttributeByName(child.attributes, name))]
    ELSE IF name \notin AttributeNames(child.attributes)
    THEN [acc EXCEPT !.attrs = Append(@, AttributeByName(parent.attributes, name))]
    ELSE MergedAttribute(acc, name,
            AttributeByName(parent.attributes, name),
            AttributeByName(child.attributes, name),
            _merge_interval(AttributeByName(parent.attributes, name).existence,
                            AttributeByName(child.attributes, name).existence, attr_path),
            _merge_cardinality(AttributeByName(parent.attributes, name).cardinality,
                               AttributeByName(child.attributes, name).cardinality,
                               attr_path),
            _merge_children(AttributeByName(parent.attributes, name).children,
                            AttributeByName(child.attributes, name).children, attr_path))

\* the loop `for name in sorted(parent names | child names)` of _merge_objects
MergeAttributes(names, i, parent, child, path, acc) ==
    IF i > Len(names) THEN acc
    ELSE MergeAttributes(names, i + 1, parent, child, path,
            MergeAttribute(names[i], parent, child,
                           _join_path(path, names[i], None), acc))

\* lines 381-397: the merged complex object, or the parent on a conflict
MergedComplexObject(parent, child, m) ==
    IF HasError(m.issues)
    THEN [value |-> parent, issues |-> m.issues]
    ELSE [value |-> CComplexObject(parent.rm_type_name,
                                   OrString(child.node_id, parent.node_id),
                                   OrObject(child.occurrences, parent.occurrences),
                                   m.attrs,
                                   OrObject(child.span, parent.span)),
          issues |-> <<>>]

_merge_objects(parent, child, path) ==
    IF parent.rm_type_name # child.rm_type_name
    THEN [value |-> parent,
          issues |-> <<_opt730("RM type mismatch",
                               <<path, parent.rm_type_name, child.rm_type_name>>)>>]
    ELSE IF parent.class = "CPrimitiveObject" \/ child.class = "CPrimitiveObject"
    THEN IF ~(parent.class = "CPrimitiveObject" /\ child.class = "CPrimitiveObject")
         THEN [value |-> parent,
               issues |-> <<_opt730("primitive/object mismatch", <<path>>)>>]
         ELSE IF parent.constraint # child.constraint /\ child.constraint # NoObject
         THEN [value |-> parent,
               issues |-> <<_opt730("primitive constraint differs", <<path>>)>>]
         ELSE [value |-> [parent EXCEPT
                            !.occurrences = OrObject(child.occurrences, parent.occurrences),
                            !.constraint = OrObject(child.constraint, parent.constraint),
                            !.span = OrObject(child.span, parent.span)],
               issues |-> <<>>]
    ELSE IF parent.class = "CArchetypeSlot" \/ child.class = "CArchetypeSlot"
    THEN IF ~(parent.class = "CArchetypeSlot" /\ child.class = "CArchetypeSlot")
         THEN [value |-> parent, issues |-> <<_opt730("slot/object mismatch", <<path>>)>>]
         ELSE IF child.includes # <<>> /\ child.includes # parent.includes
         THEN [value |-> parent, issues |-> <<_opt730("slot includes differ", <<path>>)>>]
         ELSE IF child.excludes # <<>> /\ child.excludes # parent.excludes
         THEN [value |-> parent, issues |-> <<_opt730("slot excludes differ", <<path>>)>>]
         ELSE [value |-> [parent EXCEPT
                            !.occurrences = OrObject(child.occurrences, parent.occurrences),
                            !.includes = OrTuple(child.includes, parent.includes),
                            !.excludes = OrTuple(child.excludes, parent.excludes),
                            !.span = OrObject(child.span, parent.span)],
               issues |-> <<>>]
    ELSE IF ~(parent.class = "CComplexObject" /\ child.class = "CComplexObject")
    THEN [value |-> parent, issues |-> <<_opt730("unsupported object types", <<path>>)>>]
    ELSE MergedComplexObject(parent, child,
            MergeAttributes(SortedStrs(AttributeNames(parent.attributes)
                                          \cup AttributeNames(child.attributes)),
                            1, parent, child, path, [attrs |-> <<>>, issues |-> <<>>]))

\* lines 474-483: issues.extend(merge_issues); merged.append(merged_node)
MergedNode(acc, r) ==
    [merged |-> Append(acc.merged, r.value), issues |-> acc.issues \o r.issues]

\* variant: a node id reused with another RM type takes the child's object
MergeKeyChildWins(k, p_by, c_by, path, acc) ==
    IF k \notin DOMAIN p_by THEN [acc EXCEPT !.merged = Append(@, c_by[k])]
    ELSE IF k \notin DOMAIN c_by THEN [acc EXCEPT !.merged = Append(@, p_by[k])]
    ELSE IF k[1] = <<110, 111, 100, 101, 95, 105, 100>>
            /\ p_by[k].rm_type_name # c_by[k].rm_type_name
    THEN [acc EXCEPT !.merged = Append(@, c_by[k])]
    ELSE MergedNode(acc,
            _merge_objects(p_by[k], c_by[k],
                           _join_path(path, None,
                                      OrString(c_by[k].node_id, p_by[k].node_id))))

\* one iteration of `for k in sorted(p_by keys | c_by keys)`
MergeKey(k, p_by, c_by, path, acc) ==
    IF k \notin DOMAIN p_by THEN [acc EXCEPT !.merged = Append(@, c_by[k])]
    ELSE IF k \notin DOMAIN c_by THEN [acc EXCEPT !.merged = Append(@, p_by[k])]
    ELSE IF k[1] = <<110, 111, 100, 101, 95, 105, 100>>
            /\ p_by[k].rm_type_name # c_by[k].rm_type_name
    THEN [acc EXCEPT !.issues =
             Append(@, _opt730("node_id reused with different RM type",
                               <<path, p_by[k].node_id, p_by[k].rm_type_name,
                                 c_by[k].rm_type_name>>))]
    ELSE MergedNode(acc,
            _merge_objects(p_by[k], c_by[k],
                           _join_path(path, None,
                                      OrString(c_by[k].node_id, p_by[k].node_id))))

\* the loop `for k in sorted(p_by keys | c_by keys)` of _merge_children
MergeKeys(keys, i, p_by, c_by, path, acc) ==
    IF i > Len(keys) THEN acc
    ELSE MergeKeys(keys, i + 1, p_by, c_by, path, MergeKey(keys[i], p_by, c_by, path, acc))

\* line 485: return tuple(_sorted_children(tuple(merged))), issues
MergedChildren(m) == [value |-> _sorted_children(m.merged), issues |-> m.issues]

\* lines 447-483, from p_by and c_by
MergeByKey(p_by, c, path) ==
    MergedChildren(MergeKeys(SortedTuples(DOMAIN p_by \cup DOMAIN c.by), 1, p_by, c.by,
                             path, [merged |-> <<>>, issues |-> c.issues]))

\* lines 432-483, from p_by and the issues of filling it
MergeChildrenOf(p, child_children, path) ==
    MergeByKey(p.by,
               ChildrenByKey(child_children, 1, "child", path,
                             [by |-> <<>>, issues |-> p.issues]),
               path)

_merge_children(parent_children, child_children, path) ==
    MergeChildrenOf(ChildrenByKey(parent_children, 1, "parent", path,
                                  [by |-> <<>>, issues |-> <<>>]),
                    child_children, path)

\* ArchetypeRepository.get: the archetype of an id, NoObject when not loaded
RepoGet(archs, id) ==
    IF id \in IdsOf(archs) THEN archs[FirstIndex(archs, id)] ELSE NoObject

\* lines 80-90: the outcome of merging the child over the flattened parent
FlattenMerged(parent_issues, m) ==
    IF HasError(parent_issues \o m.issues)
    THEN [raised |-> "no", definition |-> NoObject, issues |-> parent_issues \o m.issues]
    ELSE IF m.value.class # "CComplexObject"
    THEN [raised |-> "AssertionError", definition |-> NoObject,
          issues |-> parent_issues \o m.issues]
    ELSE [raised |-> "no", definition |-> m.value, issues |-> parent_issues \o m.issues]

\* variant: the parent's flattened tree merged over the child's
FlattenUnder(archetype, pr) ==
    IF pr.raised # "no" THEN pr
    ELSE IF HasError(pr.issues)
    THEN [raised |-> "no", definition |-> NoObject, issues |-> pr.issues]
    ELSE IF pr.definition = NoObject
    THEN [raised |-> "no", definition |-> archetype.definition, issues |-> pr.issues]
    ELSE IF archetype.definition = NoObject
    THEN [raised |-> "no", definition |-> pr.definition, issues |-> pr.issues]
    ELSE FlattenMerged(pr.issues,
                       _merge_objects(archetype.definition, pr.definition, <<47>>))

\* lines 68-90: what follows the flattening of the parent, whose result is pr
FlattenOver(archetype, pr) ==
    IF pr.raised # "no" THEN pr
    ELSE IF HasError(pr.issues)
    THEN [raised |-> "no", definition |-> NoObject, issues |-> pr.issues]
    ELSE IF pr.definition = NoObject
    THEN [raised |-> "no", definition |-> archetype.definition, issues |-> pr.issues]
    ELSE IF archetype.definition = NoObject
    THEN [raised |-> "no", definition |-> pr.definition, issues |-> pr.issues]
    ELSE FlattenMerged(pr.issues,
                       _merge_objects(pr.definition, archetype.definition, <<47>>))

\* flatten_specialisation_definition: [raised, definition, issues].  depth is
\* the number of frames the interpreter still allows; recursion beyond it is
\* a RecursionError
RECURSIVE flatten_specialisation_definition(_, _, _)
flatten_specialisation_definition(archetype, archs, depth) ==
    IF depth = 0
    THEN [raised |-> "RecursionError", definition |-> NoObject, issues |-> <<>>]
    ELSE IF archetype.parent_archetype_id = None
    THEN [raised |-> "no", definition |-> archetype.definition, issues |-> <<>>]
    ELSE IF RepoGet(archs, archetype.parent_archetype_id) = NoObject
    THEN [raised |-> "no", definition |-> archetype.definition, issues |-> <<>>]
    ELSE FlattenOver(archetype,
            flatten_specialisation_definition(
                RepoGet(archs, archetype.parent_archetype_id), archs, depth - 1))

\* _aom_interval_to_opt
_aom_interval_to_opt(value) ==
    IF value = NoObject THEN NoObject
    ELSE [class |-> "OptInterval", lower |-> value.lower, upper |-> value.upper,
          span |-> value.span]

\* _aom_cardinality_to_opt
_aom_cardinality_to_opt(value) ==
    IF value = NoObject THEN NoObject
    ELSE [class |-> "OptCardinality",
          occurrences |-> _aom_interval_to_opt(value.occurrences),
          is_ordered |-> value.is_ordered, is_unique |-> value.is_unique,
          span |-> value.span]

\* _aom_primitive_to_opt: the payload under the OPT class of its kind
_aom_primitive_to_opt(value) ==
    IF value = NoObject THEN NoObject
    ELSE IF value.class = "PrimitiveStringConstraint"
         THEN [value EXCEPT !.class = "OptStringConstraint"]
    ELSE IF value.class = "PrimitiveIntegerConstraint"
         THEN [value EXCEPT !.class = "OptIntegerConstraint"]
    ELSE IF value.class = "PrimitiveRealConstraint"
         THEN [value EXCEPT !.class = "OptRealConstraint"]
    ELSE IF value.class = "PrimitiveBooleanConstraint"
         THEN [value EXCEPT !.class = "OptBooleanConstraint"]
    ELSE NoObject

\* sorted(node.attributes, key=lambda x: x.rm_attribute_name), a stable sort
RECURSIVE InsertAttribute(_, _)
InsertAttribute(sorted, x) ==
    IF sorted = <<>> THEN <<x>>
    ELSE IF StrLess(x.rm_attribute_name, Head(sorted).rm_attribute_name)
         THEN <<x>> \o sorted
    ELSE <<Head(sorted)>> \o InsertAttribute(Tail(sorted), x)

RECURSIVE SortedAttributes(_)
SortedAttributes(attributes) ==
    IF attributes = <<>> THEN <<>>
    ELSE InsertAttribute(SortedAttributes(SubSeq(attributes, 1, Len(attributes) - 1)),
                         attributes[Len(attributes)])

OptCObject(class, node, path, source_archetype_id, attributes, constraint) ==
    [class |-> class, rm_type_name |-> node.rm_type_name, node_id |-> node.node_id,
     path |-> path, occurrences |-> _aom_interval_to_opt(node.occurrences),
     source_archetype_id |-> source_archetype_id, attributes |-> attributes,
     constraint |-> constraint, span |-> node.span]

\* _aom_object_to_opt
RECURSIVE _aom_object_to_opt(_, _, _)
_aom_object_to_opt(node, path, source_archetype_id) ==
    IF node.class = "CComplexObject"
    THEN LET attrs == SortedAttributes(node.attributes)
             OptAttr(a) ==
                LET attr_path == _join_path(path, a.rm_attribute_name, None)
                    cs == _sorted_children(a.children)
                IN  [rm_attribute_name |-> a.rm_attribute_name,
                     children |-> [i \in 1..Len(cs) |->
                                     _aom_object_to_opt(cs[i],
                                        _join_path(attr_path, None, cs[i].node_id),
                                        source_archetype_id)],
                     existence |-> _aom_interval_to_opt(a.existence),
                     cardinality |-> _aom_cardinality_to_opt(a.cardinality),
                     path |-> attr_path, span |-> a.span]
         IN  OptCObject("OptCComplexObject", node, path, source_archetype_id,
                        [i \in 1..Len(attrs) |-> OptAttr(attrs[i])], NoObject)
    ELSE IF node.class = "CPrimitiveObject"
    THEN OptCObject("OptCPrimitiveObject", node, path, source_archetype_id, <<>>,
                    _aom_primitive_to_opt(node.constraint))
    ELSE OptCObject("OptCComplexObject", node, path, source_archetype_id, <<>>, NoObject)

\* aom_definition_to_opt; the assertion on the class of the result cannot
\* fail for a CComplexObject definition
aom_definition_to_opt(definition, root_path, source_archetype_id) ==
    _aom_object_to_opt(definition, root_path, source_archetype_id)

(***************************************************************************)
(* validation/issue_collector.py                                           *)
(***************************************************************************)
\* the code point a character of the model's alphabet stands for: a, b,
\* '.', '*' and the '{' that opens {4294967296}; the others are their own
CodePoint(ch) ==
    CASE ch = 1 -> 97 [] ch = 2 -> 98 [] ch = 3 -> 46 [] ch = 4 -> 42
      [] ch = 5 -> 123 [] OTHER -> ch

\* what follows the fixed text in the message of a slot issue:
\* f"include={includes}; exclude={excludes}"
MessageValues(issue) ==
    IF issue.code = "OPT720"
    THEN LET m == issue.args[1] \o <<59, 32, 101, 120, 99, 108, 117, 100, 101, 61>>
                  \o issue.args[2]
         IN  [i \in 1..Len(m) |-> CodePoint(m[i])]
    ELSE <<>>

\* _issue_sort_key, for an issue raised on a node without span: file, line
\* and col are None
_issue_sort_key(issue) ==
    <<TRUE, <<>>, TRUE, 0, TRUE, 0, <<issue.code, issue.text>>, MessageValues(issue)>>

\* key(i) < key(j), decided for two slot issues of nodes without span
KeyLess(i, j) ==
    /\ _issue_sort_key(i)[7] = _issue_sort_key(j)[7]
    /\ StrLess(_issue_sort_key(i)[8], _issue_sort_key(j)[8])

(***************************************************************************)
(* validation/opt_checks.py                                                *)
(***************************************************************************)
\* _opt750; the issue's path is its argument
_opt750(text, path) == Issue("OPT750", "ERROR", text, <<path>>, None)

\* str.startswith
StartsWith(s, prefix) ==
    Len(prefix) <= Len(s) /\ SubSeq(s, 1, Len(prefix)) = prefix

\* `sub in s`
Contains(s, sub) ==
    \E i \in 0..(Len(s) - Len(sub)) : SubSeq(s, i + 1, i + Len(sub)) = sub

\* _check_attribute
_check_attribute(attr, parent_object_path) ==
    LET expected_prefix ==
            IF parent_object_path # <<47>>
            THEN RStripSlash(parent_object_path) \o <<47>> \o attr.rm_attribute_name
            ELSE <<47>> \o attr.rm_attribute_name
    IN  IF attr.rm_attribute_name = <<>>
        THEN <<_opt750("OPT attribute has empty rm_attribute_name", attr.path)>>
        ELSE IF attr.path = None
        THEN <<_opt750("OPT attribute has missing path", None)>>
        ELSE IF attr.path # expected_prefix
        THEN <<_opt750("OPT attribute path mismatch", attr.path)>>
        ELSE <<>>

\* _check_object up to `all_paths.append(path)` and the duplicate attribute
\* names; ok tells whether the walk goes on below the object
ObjectIssues(obj, parent_path) ==
    IF obj.path = None \/ ~StartsWith(obj.path, <<47>>)
    THEN [ok |-> FALSE,
          issues |-> <<_opt750("OPT object has invalid or missing path", obj.path)>>]
    ELSE LET names == IF obj.class = "OptCComplexObject"
                      THEN [i \in 1..Len(obj.attributes) |->
                               obj.attributes[i].rm_attribute_name]
                      ELSE <<>>
             dups == SortedStrs({names[i] : i \in {i \in 1..Len(names) :
                                     \E j \in 1..Len(names) :
                                         j # i /\ names[j] = names[i]}})
         IN  [ok |-> TRUE,
              issues |->
                 (IF parent_path # None /\ ~StartsWith(obj.path, parent_path)
                  THEN <<_opt750("OPT object path is not under parent path", obj.path)>>
                  ELSE <<>>)
                 \o (IF obj.node_id # None
                        /\ ~Contains(obj.path, <<91>> \o obj.node_id \o <<93>>)
                     THEN <<_opt750("OPT object node_id not reflected in path", obj.path)>>
                     ELSE <<>>)
                 \o [i \in 1..Len(dups) |->
                        _opt750("Duplicate attribute name under object", obj.path)]]

\* what `for attr in sorted(obj.attributes, ...)` visits below an object, in
\* order: each attribute, then its children with parent_path=attr.path or path
RECURSIVE ObjectItems(_, _, _)
ObjectItems(attributes, i, path) ==
    IF i > Len(attributes) THEN <<>>
    ELSE <<[kind |-> "attribute", node |-> attributes[i], parent_path |-> path]>>
         \o [j \in 1..Len(attributes[i].children) |->
                [kind |-> "object", node |-> attributes[i].children[j],
                 parent_path |-> IF Truthy(attributes[i].path)
                                 THEN attributes[i].path ELSE path]]
         \o ObjectItems(attributes, i + 1, path)

\* one visit of the walk: acc = [issues, all_paths, below]
CheckVisit(item, acc) ==
    IF item.kind = "attribute"
    THEN [acc EXCEPT !.issues = @ \o _check_attribute(item.node, item.parent_path),
                     !.below = <<>>]
    ELSE LET r == ObjectIssues(item.node, item.parent_path)
         IN  [issues |-> acc.issues \o r.issues,
              all_paths |-> IF r.ok THEN Append(acc.all_paths, item.node.path)
                            ELSE acc.all_paths,
              below |-> IF r.ok /\ item.node.class = "OptCComplexObject"
                        THEN ObjectItems(SortedAttributes(item.node.attributes), 1,
                                         item.node.path)
                        ELSE <<>>]

\* _check_object: the recursion as a stack of the visits still to make
RECURSIVE CheckWalk(_, _)
CheckBelow(rest, r) == CheckWalk(r.below \o rest, r)

CheckWalk(stack, acc) ==
    IF stack = <<>> THEN acc
    ELSE CheckBelow(Tail(stack), CheckVisit(Head(stack), acc))

_check_object(obj, parent_path) ==
    CheckWalk(<<[kind |-> "object", node |-> obj, parent_path |-> parent_path]>>,
              [issues |-> <<>>, all_paths |-> <<>>, below |-> <<>>])

\* check_opt_integrity, for an OperationalTemplate
check_opt_integrity(o) ==
    LET ids == o.component_archetype_ids
        dups == SortedStrs({ids[i] : i \in {i \in 1..Len(ids) :
                                \E j \in 1..(i - 1) : ids[j] = ids[i]}})
        component_issues ==
            [i \in 1..Len(dups) |->
                _opt750("Duplicate archetype id in component_archetype_ids", None)]
            \o (IF o.root_archetype_id # None /\ ids # <<>>
                   /\ o.root_archetype_id \notin Range(ids)
                THEN <<_opt750("root_archetype_id is not included in component_archetype_ids",
                               None)>>
                ELSE <<>>)
        root_issues ==
            IF o.definition.path = None \/ ~StartsWith(o.definition.path, <<47>>)
            THEN <<_opt750("OPT definition root has invalid or missing path",
                           o.definition.path)>>
            ELSE <<>>
        walk == _check_object(o.definition, None)
        paths == walk.all_paths
        shared == SortedStrs({paths[i] : i \in {i \in 1..Len(paths) :
                                  \E j \in 1..Len(paths) : j # i /\ paths[j] = paths[i]}})
    IN  IF o.definition = NoObject THEN component_issues
        ELSE component_issues \o root_issues \o walk.issues
             \o [i \in 1..Len(shared) |->
                    _opt750("Duplicate object path in OPT definition", shared[i])]

\* _dependency_closure_for_ids: the loop `while stack:`
RECURSIVE ClosureLoop(_, _, _)
ClosureLoop(archs, needed, stack) ==
    IF stack = <<>> THEN needed
    ELSE LET current == stack[Len(stack)]
             rest == SubSeq(stack, 1, Len(stack) - 1)
         IN  IF current \in needed THEN ClosureLoop(archs, needed, rest)
             ELSE IF current \notin IdsOf(archs)
                  THEN ClosureLoop(archs, needed \cup {current}, rest)
             ELSE LET parent == RepoGet(archs, current).parent_archetype_id
                  IN  IF parent # None /\ parent \notin needed \cup {current}
                      THEN ClosureLoop(archs, needed \cup {current}, Append(rest, parent))
                      ELSE ClosureLoop(archs, needed \cup {current}, rest)

_dependency_closure_for_ids(archs, seed_ids) == ClosureLoop(archs, {}, seed_ids)

(***************************************************************************)
(* State.                                                                  *)
(*                                                                         *)
(* dependency_order_for_archetypes:                                        *)
(*   archetypes   the collection handed to the function                    *)
(*   dep_pc       position inside the function                             *)
(*   graph        the DependencyGraph built from archetypes                *)
(*   kahn         indegree, ready and order of the Kahn loop               *)
(*   dep_order, dep_issues   the pair the function returns                 *)
(* _pattern_matches:                                                       *)
(*   pm_value, pm_kind, pm_pattern   the arguments                         *)
(*   pm_result    "pending", then "True", "False" or the exception raised  *)
(* _fill_slots:                                                            *)
(*   repo         ArchetypeRepository.archetypes, in scan order            *)
(*   template     Template.definition                                      *)
(*   slot_pc      position inside _fill_slots                              *)
(*   slot_i       index of the next node of _iter_cobjects(definition)     *)
(*   slot_acc     selected and issues so far, the exception if one escaped *)
(*   slot_result  the tuple of ids the function returns                    *)
(* compile_opt (over repo and template):                                   *)
(*   comp_pc      the stage to run next, "done" or "raised"                *)
(*   comp_issues  the issue list, starting with those of the load          *)
(*   selected_ids, scope, comp_order   locals of the function              *)
(*   opt          the OperationalTemplate returned, NoObject for None      *)
(*   ran          the stages entered so far                                *)
(* flatten_specialisation_definition (over repo):                          *)
(*   fl_archetype the archetype handed to the outermost call               *)
(*   fl_stack     the archetypes of the calls in progress, innermost last  *)
(*   fl_pc        "call" while descending to the parents, "return" while   *)
(*                the calls return, then "done" or "raised"                *)
(*   fl_result    what the call that returned last returned                *)
(* _merge_objects:                                                         *)
(*   mg_parent, mg_child   the arguments, merged at path "/"               *)
(*   mg_pc        "call", then "done"                                      *)
(*   mg_result    the (object, issues) pair returned                       *)
(* IssueCollector:                                                         *)
(*   ic_issues    the list _issues                                         *)
(*   ic_added     every issue handed to the collector so far, in order     *)
(* ValidationRegistry:                                                     *)
(*   rg_registrations   _registrations, a list per layer                   *)
(*   rg_next_order      _next_order                                        *)
(*   rg_layers    the layers argument of the last run, NoRun before it     *)
(*   rg_called    the registrations whose check that run invoked, in order *)
(***************************************************************************)
VARIABLES archetypes, dep_pc, graph, kahn, dep_order, dep_issues,
          pm_value, pm_kind, pm_pattern, pm_result,
          repo, template, slot_pc, slot_i, slot_acc, slot_result,
          comp_pc, comp_issues, selected_ids, scope, comp_order, opt, ran,
          fl_archetype, fl_pc, fl_stack, fl_result,
          mg_parent, mg_child, mg_pc, mg_result,
          ic_issues, ic_added,
          rg_registrations, rg_next_order, rg_called, rg_layers

dep_vars == <<archetypes, dep_pc, graph, kahn, dep_order, dep_issues>>

pm_vars == <<pm_value, pm_kind, pm_pattern, pm_result>>

slot_vars == <<repo, template, slot_pc, slot_i, slot_acc, slot_result>>

comp_vars == <<comp_pc, comp_issues, selected_ids, scope, comp_order, opt, ran>>

fl_vars == <<fl_archetype, fl_pc, fl_stack, fl_result>>

mg_vars == <<mg_parent, mg_child, mg_pc, mg_result>>

ic_vars == <<ic_issues, ic_added>>

rg_vars == <<rg_registrations, rg_next_order, rg_called, rg_layers>>

vars == <<dep_vars, pm_vars, slot_vars, comp_vars, fl_vars, mg_vars, ic_vars, rg_vars>>

\* Archetype(archetype_id, parent_archetype_id, definition)
Archetype(id, parent, definition) ==
    [archetype_id |-> id, parent_archetype_id |-> parent, definition |-> definition]

BareArchetypes ==
    {Archetype(id, parent, NoObject) : id \in ArchetypeIds, parent \in ArchetypeIds \cup {None}}

SeqsUpTo(S, n) == UNION {[1..k -> S] : k \in 0..n}

NoGraph == [nodes |-> <<>>, edges |-> <<>>]
NoKahn == [indegree |-> <<>>, ready |-> <<>>, order |-> <<>>]

\* the values of a function's variables while that function is not running
DepIdle ==
    /\ archetypes = <<>>
    /\ dep_pc = "idle"
    /\ graph = NoGraph
    /\ kahn = NoKahn
    /\ dep_order = <<>>
    /\ dep_issues = <<>>

PmIdle ==
    /\ pm_value = <<>>
    /\ pm_kind = "exact"
    /\ pm_pattern = <<>>
    /\ pm_result = "idle"

FillSlotsIdle ==
    /\ slot_pc = "idle"
    /\ slot_i = 0
    /\ slot_acc = FillSlotsInit
    /\ slot_result = <<>>

SlotIdle ==
    /\ repo = <<>>
    /\ template = NoObject
    /\ FillSlotsIdle

CompIdle ==
    /\ comp_pc = "idle"
    /\ comp_issues = <<>>
    /\ selected_ids = <<>>
    /\ scope = <<>>
    /\ comp_order = <<>>
    /\ opt = NoObject
    /\ ran = {}

NoResult == [raised |-> "no", definition |-> NoObject, issues |-> <<>>]

FlIdle ==
    /\ fl_archetype = NoObject
    /\ fl_pc = "idle"
    /\ fl_stack = <<>>
    /\ fl_result = NoResult

NoMerge == [value |-> NoObject, issues |-> <<>>]

MgIdle ==
    /\ mg_parent = NoObject
    /\ mg_child = NoObject
    /\ mg_pc = "idle"
    /\ mg_result = NoMerge

IcIdle ==
    /\ ic_issues = <<>>
    /\ ic_added = <<>>

\* the four layers, in the order of _LAYER_ORDER
_LAYER_ORDER == <<"syntax", "semantic", "rm", "opt">>

NoRun == <<"no run">>

RgIdle ==
    /\ rg_registrations = [layer \in Range(_LAYER_ORDER) |-> <<>>]
    /\ rg_next_order = 0
    /\ rg_called = <<>>
    /\ rg_layers = NoRun

(***************************************************************************)
(* dependency_order_for_archetypes, step by step.                          *)
(***************************************************************************)
DepInit ==
    /\ archetypes \in SeqsUpTo(BareArchetypes, MaxArchetypes)
    /\ dep_pc = "build"
    /\ graph = NoGraph
    /\ kahn = NoKahn
    /\ dep_order = <<>>
    /\ dep_issues = <<>>
    /\ PmIdle
    /\ SlotIdle
    /\ CompIdle
    /\ FlIdle
    /\ MgIdle
    /\ IcIdle
    /\ RgIdle

\* line 150: graph, spans = build_archetype_dependency_graph(archetypes)
DepBuildGraph ==
    /\ dep_pc = "build"
    /\ graph' = build_archetype_dependency_graph(archetypes)
    /\ dep_pc' = "cycles"
    /\ UNCHANGED <<archetypes, kahn, dep_order, dep_issues, pm_vars, slot_vars, comp_vars, fl_vars, mg_vars, ic_vars, rg_vars>>

\* lines 151-166: cycle detection, early return, set-up of the Kahn loop
DepDetectCycles ==
    /\ dep_pc = "cycles"
    /\ LET cycle_issues == detect_dependency_cycles(graph)
       IN  IF cycle_issues # <<>>
           THEN /\ dep_order' = <<>>
                /\ dep_issues' = cycle_issues
                /\ dep_pc' = "done"
                /\ kahn' = kahn
           ELSE /\ kahn' = KahnInit(graph)
                /\ dep_pc' = "kahn"
                /\ UNCHANGED <<dep_order, dep_issues>>
    /\ UNCHANGED <<archetypes, graph, pm_vars, slot_vars, comp_vars, fl_vars, mg_vars, ic_vars, rg_vars>>

\* lines 169-177: one iteration of `while ready:`
DepKahnStep ==
    /\ dep_pc = "kahn"
    /\ kahn.ready # <<>>
    /\ kahn' = KahnStep(graph, kahn)
    /\ UNCHANGED <<archetypes, dep_pc, graph, dep_order, dep_issues, pm_vars, slot_vars, comp_vars, fl_vars, mg_vars, ic_vars, rg_vars>>

\* lines 179-188: the loop has ended
DepReturn ==
    /\ dep_pc = "kahn"
    /\ kahn.ready = <<>>
    /\ dep_order' = IF Len(kahn.order) # Len(graph.nodes) THEN <<>> ELSE kahn.order
    /\ dep_issues' = IF Len(kahn.order) # Len(graph.nodes) THEN <<IncompleteIssue>> ELSE <<>>
    /\ dep_pc' = "done"
    /\ UNCHANGED <<archetypes, graph, kahn, pm_vars, slot_vars, comp_vars, fl_vars, mg_vars, ic_vars, rg_vars>>

DepNext == DepBuildGraph \/ DepDetectCycles \/ DepKahnStep \/ DepReturn

\* dependency_order_for_archetypes on every bounded collection
SpecDeps == DepInit /\ [][DepNext]_vars

(***************************************************************************)
(* _pattern_matches on every bounded value, kind and pattern.              *)
(***************************************************************************)
\* the strings over a and b of length 1 and 2
PatternValues == {<<1>>, <<2>>, <<1, 1>>, <<1, 2>>, <<2, 1>>, <<2, 2>>}

\* "glob" stands for any kind that is neither "exact" nor "regex"
PatternKinds == {"exact", "regex", "glob"}

PatternChars == 1..5

PmInit ==
    /\ pm_value \in PatternValues
    /\ pm_kind \in PatternKinds
    /\ pm_pattern \in SeqsUpTo(PatternChars, MaxPatternLen)
    /\ pm_result = "pending"
    /\ DepIdle
    /\ SlotIdle
    /\ CompIdle
    /\ FlIdle
    /\ MgIdle
    /\ IcIdle
    /\ RgIdle

\* compiler.py:227-236
PatternMatch ==
    /\ pm_result = "pending"
    /\ pm_result' = _pattern_matches(pm_value, pm_kind, pm_pattern)
    /\ UNCHANGED <<pm_value, pm_kind, pm_pattern, dep_vars, slot_vars, comp_vars, fl_vars, mg_vars, ic_vars, rg_vars>>

PmNext == PatternMatch

SpecPatterns == PmInit /\ [][PmNext]_vars

(***************************************************************************)
(* _fill_slots, node by node.                                              *)
(***************************************************************************)
\* exact "ab", regex "a.*", regex "a{4294967296}"
SlotPatterns ==
    {ArchetypeSlotPattern("exact", <<1, 2>>),
     ArchetypeSlotPattern("regex", <<1, 3, 4>>),
     ArchetypeSlotPattern("regex", <<1, 5>>)}

Slots ==
    {CArchetypeSlot(<<2>>, None, NoObject, inc, exc, NoObject) :
        inc \in SeqsUpTo(SlotPatterns, MaxIncludes),
        exc \in SeqsUpTo(SlotPatterns, MaxExcludes)}

\* slots with one include pattern and no exclude pattern
PlainSlots ==
    {CArchetypeSlot(<<2>>, None, NoObject, <<p>>, <<>>, NoObject) : p \in SlotPatterns}

\* COMPOSITION matches { x matches { <children> } }
OneLevel(children) ==
    CComplexObject(<<1>>, None, NoObject,
                   <<CAttribute(<<1>>, children, NoObject, NoObject, NoObject)>>, NoObject)

\* a template whose first slot lies one level deeper, next to a primitive
\* object, and whose second slot is under another attribute of the root
TwoLevels(s1, s2) ==
    CComplexObject(<<1>>, None, NoObject,
        <<CAttribute(<<1>>,
                     <<CPrimitiveObject(<<1>>, None, NoObject, NoObject, NoObject),
                       OneLevel(<<s1>>)>>,
                     NoObject, NoObject, NoObject),
          CAttribute(<<2>>, <<s2>>, NoObject, NoObject, NoObject)>>,
        NoObject)

SlotTemplates ==
    {OneLevel(<<s>>) : s \in Slots}
        \cup {OneLevel(<<s1, s2>>) : s1 \in Slots, s2 \in PlainSlots}
        \cup {TwoLevels(s1, s2) : s1 \in Slots, s2 \in PlainSlots}

\* the repository keeps one archetype per id; its scan order is that of the
\* file paths and owes nothing to the ids
Repositories(S) == {r \in SeqsUpTo(S, Cardinality(ArchetypeIds)) : DistinctIds(r)}

SlotInit ==
    /\ repo \in Repositories({Archetype(id, None, NoObject) : id \in ArchetypeIds})
    /\ template \in SlotTemplates
    /\ slot_pc = "iter"
    /\ slot_i = 1
    /\ slot_acc = FillSlotsInit
    /\ slot_result = <<>>
    /\ DepIdle
    /\ PmIdle
    /\ CompIdle
    /\ FlIdle
    /\ MgIdle
    /\ IcIdle
    /\ RgIdle

\* lines 176-209: one iteration of `for node in _iter_cobjects(definition)`
SlotVisitNode ==
    /\ slot_pc = "iter"
    /\ slot_i <= Len(_iter_cobjects(template))
    /\ LET acc == FillSlotsNode(_iter_cobjects(template)[slot_i], repo, slot_acc)
       IN  /\ slot_acc' = acc
           /\ slot_pc' = IF acc.raised # "no" THEN "raised" ELSE "iter"
    /\ slot_i' = slot_i + 1
    /\ UNCHANGED <<repo, template, slot_result, dep_vars, pm_vars, comp_vars, fl_vars, mg_vars, ic_vars, rg_vars>>

\* line 212: return tuple(sorted(set(selected))), issues
SlotReturn ==
    /\ slot_pc = "iter"
    /\ slot_i > Len(_iter_cobjects(template))
    /\ slot_result' = SelectedIds(slot_acc.selected)
    /\ slot_pc' = "done"
    /\ UNCHANGED <<repo, template, slot_i, slot_acc, dep_vars, pm_vars, comp_vars, fl_vars, mg_vars, ic_vars, rg_vars>>

SlotNext == SlotVisitNode \/ SlotReturn

SpecSlots == SlotInit /\ [][SlotNext]_vars

(***************************************************************************)
(* compile_opt, stage by stage.  comp_pc = "done" is a return and          *)
(* (opt, comp_issues) the pair returned; comp_pc = "raised" is an          *)
(* exception leaving the function.  ran collects the stages entered.       *)
(***************************************************************************)
\* the definition an archetype has, if it has one: those of "a" and "b"
\* agree on the RM type of the node [a], that of "ab" differs
DefinitionOf(id) ==
    OneLevel(<<CComplexObject(IF id = <<1, 2>> THEN <<2>> ELSE <<1>>, <<1>>,
                              NoObject, <<>>, NoObject)>>)

CompileArchetypes ==
    {Archetype(id, parent, IF defined THEN DefinitionOf(id) ELSE NoObject) :
        id \in ArchetypeIds, parent \in ArchetypeIds \cup {None}, defined \in BOOLEAN}

Slot(includes, excludes) ==
    CArchetypeSlot(<<2>>, None, NoObject, includes, excludes, NoObject)

\* no definition; no slot; one slot asking for "ab", for /a.*/, for anything
\* but /a.*/; two slots; a slot nothing fills followed by /a{4294967296}/
CompileTemplates ==
    {NoObject,
     OneLevel(<<>>),
     OneLevel(<<Slot(<<ArchetypeSlotPattern("exact", <<1, 2>>)>>, <<>>)>>),
     OneLevel(<<Slot(<<ArchetypeSlotPattern("regex", <<1, 3, 4>>)>>, <<>>)>>),
     OneLevel(<<Slot(<<>>, <<ArchetypeSlotPattern("regex", <<1, 3, 4>>)>>)>>),
     OneLevel(<<Slot(<<ArchetypeSlotPattern("exact", <<1, 2>>)>>, <<>>),
                Slot(<<ArchetypeSlotPattern("exact", <<2>>)>>, <<>>)>>),
     OneLevel(<<Slot(<<ArchetypeSlotPattern("exact", <<2, 2>>)>>, <<>>),
                Slot(<<ArchetypeSlotPattern("regex", <<1, 5>>)>>, <<>>)>>)}

\* what ArchetypeRepository.load_from_dir reports besides the repository
LoadIssues ==
    {<<>>,
     <<Issue("ADL001", "WARN", "load", <<>>, None)>>,
     <<Issue("AOM242", "ERROR", "load", <<>>, None)>>}

\* line 48: repo, issues = ArchetypeRepository.load_from_dir(archetype_dir)
CompInit ==
    /\ repo \in Repositories(CompileArchetypes)
    /\ template \in CompileTemplates
    /\ comp_issues \in LoadIssues
    /\ comp_pc = "slots"
    /\ selected_ids = <<>>
    /\ scope = <<>>
    /\ comp_order = <<>>
    /\ opt = NoObject
    /\ ran = {}
    /\ FillSlotsIdle
    /\ DepIdle
    /\ PmIdle
    /\ FlIdle
    /\ MgIdle
    /\ IcIdle
    /\ RgIdle

\* lines 50-57
CompFillSlots ==
    /\ comp_pc = "slots"
    /\ LET r == IF template # NoObject THEN _fill_slots(template, repo) ELSE FillSlotsInit
       IN  IF r.raised # "no"
           THEN /\ comp_pc' = "raised"
                /\ UNCHANGED <<comp_issues, selected_ids>>
           ELSE /\ selected_ids' = r.selected
                /\ comp_issues' = comp_issues \o r.issues
                /\ comp_pc' = IF HasError(comp_issues \o r.issues) THEN "done" ELSE "scope"
    /\ ran' = ran \cup {"slots"}
    /\ UNCHANGED <<scope, comp_order, opt, dep_vars, pm_vars, slot_vars, fl_vars, mg_vars, ic_vars, rg_vars>>

\* tuple(a for a in repo.archetypes if a.archetype_id in needed_ids)
RECURSIVE InScope(_, _)
InScope(archs, needed_ids) ==
    IF archs = <<>> THEN <<>>
    ELSE IF Head(archs).archetype_id \in needed_ids
         THEN <<Head(archs)>> \o InScope(Tail(archs), needed_ids)
    ELSE InScope(Tail(archs), needed_ids)

\* variant: the whole repository whatever the slots selected
WholeRepository(archs, ids) == archs

\* variant: the selected archetypes without their ancestors
SelectedOnly(archs, ids) ==
    IF ids # <<>> THEN InScope(archs, Range(ids)) ELSE archs

\* lines 63-66
CompilationScope(archs, ids) ==
    IF ids # <<>> THEN InScope(archs, _dependency_closure_for_ids(archs, ids)) ELSE archs

CompScope ==
    /\ comp_pc = "scope"
    /\ scope' = CompilationScope(repo, selected_ids)
    /\ comp_pc' = "missing"
    /\ ran' = ran \cup {"scope"}
    /\ UNCHANGED <<comp_issues, selected_ids, comp_order, opt, dep_vars, pm_vars, slot_vars, fl_vars, mg_vars, ic_vars, rg_vars>>

\* variant: stop at the first archetype whose parent is missing
RECURSIVE FirstMissingParentOnly(_, _)
FirstMissingParentOnly(archs, all) ==
    IF archs = <<>> THEN <<>>
    ELSE LET a == Head(archs)
         IN  IF a.parent_archetype_id = None
                  \/ RepoGet(all, a.parent_archetype_id) # NoObject
             THEN FirstMissingParentOnly(Tail(archs), all)
             ELSE <<Issue("OPT700", "ERROR", "Cannot resolve archetype dependency",
                          <<a.parent_archetype_id, a.archetype_id>>, None)>>

\* lines 69-92: the issues of `for a in archetypes`; the archetypes of the
\* model carry no concept, the issue's node_id
RECURSIVE MissingParentIssues(_, _)
MissingParentIssues(archs, all) ==
    IF archs = <<>> THEN <<>>
    ELSE LET a == Head(archs)
         IN  IF a.parent_archetype_id = None
                  \/ RepoGet(all, a.parent_archetype_id) # NoObject
             THEN MissingParentIssues(Tail(archs), all)
             ELSE <<Issue("OPT700", "ERROR", "Cannot resolve archetype dependency",
                          <<a.parent_archetype_id, a.archetype_id>>, None)>>
                      \o MissingParentIssues(Tail(archs), all)

\* lines 69-95
CompMissingParents ==
    /\ comp_pc = "missing"
    /\ comp_issues' = comp_issues \o MissingParentIssues(scope, repo)
    /\ comp_pc' = IF HasError(comp_issues') THEN "done" ELSE "order"
    /\ ran' = ran \cup {"missing"}
    /\ UNCHANGED <<selected_ids, scope, comp_order, opt, dep_vars, pm_vars, slot_vars, fl_vars, mg_vars, ic_vars, rg_vars>>

\* lines 97-101
CompDependencyOrder ==
    /\ comp_pc = "order"
    /\ LET r == dependency_order_for_archetypes(scope)
       IN  /\ comp_order' = r.order
           /\ comp_issues' = comp_issues \o r.issues
           /\ comp_pc' = IF HasError(comp_issues \o r.issues) THEN "done" ELSE "flatten"
    /\ ran' = ran \cup {"order"}
    /\ UNCHANGED <<selected_ids, scope, opt, dep_vars, pm_vars, slot_vars, fl_vars, mg_vars, ic_vars, rg_vars>>

\* OperationalTemplate(root_archetype_id, component_archetype_ids, definition);
\* the other fields repeat the template's
OperationalTemplate(root_archetype_id, component_archetype_ids, definition) ==
    [class |-> "OperationalTemplate", root_archetype_id |-> root_archetype_id,
     component_archetype_ids |-> component_archetype_ids, definition |-> definition]

\* variant: a template is built whatever flattening reported
BuildRegardless(issues) == FALSE

\* line 112: if any(i.severity is Severity.ERROR for i in issues)
FlattenAborts(issues) == HasError(issues)

\* lines 104-132
CompFlatten ==
    /\ comp_pc = "flatten"
    /\ LET root_archetype_id ==
               IF comp_order # <<>> THEN comp_order[Len(comp_order)] ELSE None
           root == IF root_archetype_id = None THEN NoObject
                   ELSE RepoGet(repo, root_archetype_id)
           flattens == root # NoObject /\ root.definition # NoObject
           f == IF flattens
                THEN flatten_specialisation_definition(root, repo, Len(repo) + 1)
                ELSE [raised |-> "no", definition |-> NoObject, issues |-> <<>>]
           definition ==
               IF f.definition # NoObject
               THEN aom_definition_to_opt(f.definition, <<47>>, root_archetype_id)
               ELSE NoObject
       IN  IF f.raised # "no"
           THEN /\ comp_pc' = "raised"
                /\ UNCHANGED <<comp_issues, opt>>
           ELSE /\ comp_issues' = comp_issues \o f.issues
                /\ comp_pc' = "done"
                /\ opt' = IF FlattenAborts(comp_issues \o f.issues) THEN NoObject
                          ELSE OperationalTemplate(root_archetype_id, comp_order, definition)
    /\ ran' = ran \cup {"flatten"}
    /\ UNCHANGED <<selected_ids, scope, comp_order, dep_vars, pm_vars, slot_vars, fl_vars, mg_vars, ic_vars, rg_vars>>

CompNext ==
    \/ CompFillSlots
    \/ CompScope
    \/ CompMissingParents
    \/ CompDependencyOrder
    \/ CompFlatten

SpecCompile == CompInit /\ [][CompNext]_vars

(***************************************************************************)
(* flatten_specialisation_definition, call by call.                        *)
(***************************************************************************)
\* SourceSpan(file, start_line); the columns and the end are fixed
SourceSpan(file, start_line) ==
    [class |-> "SourceSpan", file |-> file, start_line |-> start_line,
     start_col |-> 1, end_line |-> start_line, end_col |-> 1]

\* PrimitiveStringConstraint(values, span)
PrimitiveStringConstraint(values, span) ==
    [class |-> "PrimitiveStringConstraint", values |-> values, span |-> span]

\* root { x matches { <rm_type>[a] occurrences <occurrences> } }
RootWithNode(rm_type, occurrences) ==
    OneLevel(<<CComplexObject(rm_type, <<1>>, occurrences, <<>>, NoObject)>>)

\* root { y matches { <primitive>[b] } }
RootWithPrimitive ==
    CComplexObject(<<1>>, None, NoObject,
        <<CAttribute(<<2>>,
                     <<CPrimitiveObject(<<1>>, <<2>>, NoObject,
                                        PrimitiveStringConstraint(<<<<1>>>>, NoObject),
                                        NoObject)>>,
                     NoObject, NoObject, NoObject)>>,
        NoObject)

\* root { y matches { }  x matches { <a>[a] } }: attributes not in name order
RootUnsorted ==
    CComplexObject(<<1>>, None, NoObject,
        <<CAttribute(<<2>>, <<>>, NoObject, NoObject, NoObject),
          CAttribute(<<1>>, <<CComplexObject(<<1>>, <<1>>, NoObject, <<>>, NoObject)>>,
                     NoObject, NoObject, NoObject)>>,
        NoObject)

\* <a>[a] matches { x matches { <a>[a] matches { y matches { <b> matches { } } } } }:
\* a root that carries a node id, as the root of a parsed archetype does,
\* and under its node [a] an attribute over a child without node id
RootWithId ==
    CComplexObject(<<1>>, <<1>>, NoObject,
        <<CAttribute(<<1>>,
            <<CComplexObject(<<1>>, <<1>>, NoObject,
                <<CAttribute(<<2>>,
                             <<CComplexObject(<<2>>, None, NoObject, <<>>, NoObject)>>,
                             NoObject, NoObject, NoObject)>>,
                NoObject)>>,
            NoObject, NoObject, NoObject)>>,
        NoObject)

\* the definitions of the archetypes handed to the flattener: none; the
\* node [a] with occurrences 0..1 and with 0..2; another attribute; the
\* node [a] with another RM type; a root of another RM type; attributes
\* out of name order; a root with a node id
FlattenDefinitions ==
    {NoObject,
     RootWithNode(<<1>>, Interval(0, 1, NoObject)),
     RootWithNode(<<1>>, Interval(0, 2, NoObject)),
     RootWithPrimitive,
     RootWithNode(<<2>>, NoObject),
     CComplexObject(<<2>>, None, NoObject, <<>>, NoObject),
     RootUnsorted,
     RootWithId}

FlattenArchetypes ==
    {Archetype(id, parent, definition) :
        id \in ArchetypeIds, parent \in ArchetypeIds \cup {None},
        definition \in FlattenDefinitions}

\* repositories listed by ascending id
OrderedRepositories(S) ==
    {r \in Repositories(S) :
        \A i \in 1..(Len(r) - 1) : StrLess(r[i].archetype_id, r[i + 1].archetype_id)}

\* the call flatten_specialisation_definition(archetype, repo)
FlInit ==
    /\ repo \in OrderedRepositories(FlattenArchetypes)
    /\ template = NoObject
    /\ \E i \in 1..Len(repo) : fl_archetype = repo[i]
    /\ fl_stack = <<fl_archetype>>
    /\ fl_pc = "call"
    /\ fl_result = NoResult
    /\ FillSlotsIdle
    /\ DepIdle
    /\ PmIdle
    /\ CompIdle
    /\ MgIdle
    /\ IcIdle
    /\ RgIdle

\* variant: the own definition with its attributes put in name order
OwnDefinitionInNameOrder(archetype) ==
    [NoResult EXCEPT !.definition =
        IF archetype.definition = NoObject THEN NoObject
        ELSE [archetype.definition EXCEPT !.attributes = SortedAttributes(@)]]

\* lines 60 and 65: return archetype.definition, []
OwnDefinition(archetype) == [NoResult EXCEPT !.definition = archetype.definition]

\* lines 58-67: return the own definition, or call the function on the parent
FlCall ==
    /\ fl_pc = "call"
    /\ LET archetype == fl_stack[Len(fl_stack)]
           parent_id == archetype.parent_archetype_id
       IN  IF Len(fl_stack) > RecursionLimit
           THEN /\ fl_pc' = "raised"
                /\ fl_result' = [NoResult EXCEPT !.raised = "RecursionError"]
                /\ UNCHANGED fl_stack
           ELSE IF parent_id = None \/ RepoGet(repo, parent_id) = NoObject
           THEN /\ fl_pc' = "return"
                /\ fl_result' = OwnDefinition(archetype)
                /\ fl_stack' = SubSeq(fl_stack, 1, Len(fl_stack) - 1)
           ELSE /\ fl_stack' = Append(fl_stack, RepoGet(repo, parent_id))
                /\ UNCHANGED <<fl_pc, fl_result>>
    /\ UNCHANGED <<fl_archetype, repo, template, slot_pc, slot_i, slot_acc, slot_result,
                   dep_vars, pm_vars, comp_vars, mg_vars, ic_vars, rg_vars>>

\* lines 67-90: the call on the parent has returned fl_result
FlReturn ==
    /\ fl_pc = "return"
    /\ fl_stack # <<>>
    /\ fl_result' = FlattenOver(fl_stack[Len(fl_stack)], fl_result)
    /\ fl_pc' = IF FlattenOver(fl_stack[Len(fl_stack)], fl_result).raised # "no"
                THEN "raised" ELSE "return"
    /\ fl_stack' = SubSeq(fl_stack, 1, Len(fl_stack) - 1)
    /\ UNCHANGED <<fl_archetype, repo, template, slot_pc, slot_i, slot_acc, slot_result,
                   dep_vars, pm_vars, comp_vars, mg_vars, ic_vars, rg_vars>>

\* the outermost call has returned
FlDone ==
    /\ fl_pc = "return"
    /\ fl_stack = <<>>
    /\ fl_pc' = "done"
    /\ UNCHANGED <<fl_archetype, fl_stack, fl_result, repo, template, slot_pc, slot_i, slot_acc,
                   slot_result, dep_vars, pm_vars, comp_vars, mg_vars, ic_vars, rg_vars>>

FlNext == FlCall \/ FlReturn \/ FlDone

SpecFlatten == FlInit /\ [][FlNext]_vars

(***************************************************************************)
(* _merge_objects on a parent and a child object, at the root path.        *)
(***************************************************************************)
\* the spans of two files
Spans == {NoObject, SourceSpan(<<1>>, 1), SourceSpan(<<2>>, 1)}

\* a primitive object <a> without node id
MergePrimitives ==
    {CPrimitiveObject(<<1>>, None, occurrences, constraint, NoObject) :
        occurrences \in {NoObject, Interval(0, 1, NoObject), Interval(1, 1, NoObject)},
        constraint \in {NoObject,
                        PrimitiveStringConstraint(<<<<1>>>>, NoObject),
                        PrimitiveStringConstraint(<<<<2>>>>, NoObject),
                        PrimitiveStringConstraint(<<<<1>>>>, SourceSpan(<<1>>, 1))}}

\* <b>[a] matches { }; the same node with the attribute y over a child
\* without node id (OBSERVATION[at0001], data, ITEM_TREE); two children <b>
\* without node id that differ in their occurrences; the same two with the
\* node id [a]; the nodes [a] and [b], both <a> or both <b>
MergeChildLists ==
    {<<>>,
     <<CComplexObject(<<2>>, <<1>>, NoObject, <<>>, NoObject)>>,
     <<CComplexObject(<<2>>, <<1>>, NoObject,
          <<CAttribute(<<2>>, <<CComplexObject(<<1>>, None, NoObject, <<>>, NoObject)>>,
                       NoObject, NoObject, NoObject)>>,
          NoObject)>>,
     <<CComplexObject(<<2>>, None, Interval(0, 1, NoObject), <<>>, NoObject),
       CComplexObject(<<2>>, None, NoObject, <<>>, NoObject)>>,
     <<CComplexObject(<<2>>, <<1>>, Interval(0, 1, NoObject), <<>>, NoObject),
       CComplexObject(<<2>>, <<1>>, NoObject, <<>>, NoObject)>>}
        \cup {<<CComplexObject(rm_type, <<1>>, NoObject, <<>>, NoObject),
                CComplexObject(rm_type, <<2>>, NoObject, <<>>, NoObject)>> :
                  rm_type \in {<<1>>, <<2>>}}

\* a complex object <a> without attribute, with the attribute x (existence
\* 0..1 read at one of the spans, or none), with y, with y then x, or with
\* x (existence and cardinality) then y (existence)
MergeComplexObjects ==
    {CComplexObject(<<1>>, None, NoObject, attributes, NoObject) :
        attributes \in
            {<<>>,
             <<CAttribute(<<2>>, <<>>, NoObject, NoObject, NoObject)>>,
             <<CAttribute(<<2>>, <<>>, Interval(1, 1, NoObject), NoObject, NoObject),
               CAttribute(<<1>>, <<>>, NoObject, NoObject, NoObject)>>}
            \cup {<<CAttribute(<<1>>, children, NoObject, NoObject, NoObject)>> :
                     children \in MergeChildLists}
            \cup {<<CAttribute(<<1>>, <<>>, Interval(0, 1, span), NoObject, NoObject)>> :
                     span \in Spans}
            \cup {<<CAttribute(<<1>>, <<>>, Interval(lower, 1, NoObject),
                               Cardinality_(Interval(0, upper, NoObject), TRUE, FALSE, NoObject),
                               NoObject),
                    CAttribute(<<2>>, <<>>, Interval(lower, 1, NoObject), NoObject, NoObject)>> :
                     lower \in 0..1, upper \in 1..2}}

\* a slot <a> without node id whose include and exclude lists are empty,
\* exact "a" or exact "b"
MergeSlots ==
    {CArchetypeSlot(<<1>>, None, NoObject, includes, excludes, NoObject) :
        includes \in {<<>>, <<ArchetypeSlotPattern("exact", <<1>>)>>,
                      <<ArchetypeSlotPattern("exact", <<2>>)>>},
        excludes \in {<<>>, <<ArchetypeSlotPattern("exact", <<1>>)>>,
                      <<ArchetypeSlotPattern("exact", <<2>>)>>}}

MergeObjects == MergePrimitives \cup MergeComplexObjects \cup MergeSlots

MgInit ==
    /\ mg_parent \in MergeObjects
    /\ mg_child \in MergeObjects
    /\ mg_pc = "call"
    /\ mg_result = NoMerge
    /\ SlotIdle
    /\ DepIdle
    /\ PmIdle
    /\ CompIdle
    /\ FlIdle
    /\ IcIdle
    /\ RgIdle

\* _merge_objects(parent, child, path="/")
MgMerge ==
    /\ mg_pc = "call"
    /\ mg_result' = _merge_objects(mg_parent, mg_child, <<47>>)
    /\ mg_pc' = "done"
    /\ UNCHANGED <<mg_parent, mg_child, dep_vars, pm_vars, slot_vars, comp_vars, fl_vars,
                   ic_vars, rg_vars>>

MgNext == MgMerge

SpecMerge == MgInit /\ [][MgNext]_vars

(***************************************************************************)
(* compile_opt over repositories whose archetypes carry the definitions    *)
(* handed to the flattener, with a template that has no definition.        *)
(***************************************************************************)
CompTreesInit ==
    /\ repo \in OrderedRepositories(FlattenArchetypes)
    /\ template = NoObject
    /\ comp_issues = <<>>
    /\ comp_pc = "slots"
    /\ selected_ids = <<>>
    /\ scope = <<>>
    /\ comp_order = <<>>
    /\ opt = NoObject
    /\ ran = {}
    /\ FillSlotsIdle
    /\ DepIdle
    /\ PmIdle
    /\ FlIdle
    /\ MgIdle
    /\ IcIdle
    /\ RgIdle

SpecCompileTrees == CompTreesInit /\ [][CompNext]_vars

(***************************************************************************)
(* compile_opt from the call on, under the fairness of sequential code.    *)
(***************************************************************************)
\* the repositories a directory can hold
CompileRepositories == Repositories(CompileArchetypes)

\* the call compile_opt(template, archetype_dir=...), nothing loaded yet
CompCallInit ==
    /\ repo = <<>>
    /\ template = NoObject
    /\ comp_issues = <<>>
    /\ comp_pc = "load"
    /\ selected_ids = <<>>
    /\ scope = <<>>
    /\ comp_order = <<>>
    /\ opt = NoObject
    /\ ran = {}
    /\ FillSlotsIdle
    /\ DepIdle
    /\ PmIdle
    /\ FlIdle
    /\ MgIdle
    /\ IcIdle
    /\ RgIdle

\* line 48: repo, issues = ArchetypeRepository.load_from_dir(archetype_dir),
\* for any template and any directory
CompLoad ==
    /\ comp_pc = "load"
    /\ repo' \in CompileRepositories
    /\ template' \in CompileTemplates
    /\ comp_issues' \in LoadIssues
    /\ comp_pc' = "slots"
    /\ UNCHANGED <<selected_ids, scope, comp_order, opt, ran, slot_pc, slot_i, slot_acc,
                   slot_result, dep_vars, pm_vars, fl_vars, mg_vars, ic_vars, rg_vars>>

CompCallNext == CompLoad \/ CompNext

\* the positions of compile_opt, in the order it passes them
Stages == <<"load", "slots", "scope", "missing", "order", "flatten", "done", "raised">>

\* compile_opt moves on from a position where it has neither returned nor
\* raised
Advance ==
    /\ comp_pc \notin {"done", "raised"}
    /\ comp_pc' \in Range(Stages)
    /\ comp_pc' # comp_pc

\* compile_opt is one sequential call: as long as it has neither returned
\* nor raised, the interpreter runs its next stage, and every stage leaves
\* its position
SpecCompileFair == CompCallInit /\ [][CompCallNext]_vars /\ WF_comp_pc(Advance)

(***************************************************************************)
(* The specialisation-parent relation of a collection, stated without the  *)
(* graph: what the properties below are measured against.                  *)
(***************************************************************************)
\* the parent of id when that parent is in the collection, else None
\* (of the first archetype carrying the id: first occurrence wins)
ParentIn(archs, id) ==
    LET p == archs[FirstIndex(archs, id)].parent_archetype_id
    IN  IF p \in IdsOf(archs) THEN p ELSE None

\* the k-th ancestor of id inside the collection, None when the chain ends
RECURSIVE Up(_, _, _)
Up(archs, id, k) ==
    IF id = None THEN None
    ELSE IF k = 0 THEN id
    ELSE Up(archs, ParentIn(archs, id), k - 1)

OnCycle(archs, id) == \E k \in 1..Len(archs) : Up(archs, id, k) = id

CycleOf(archs, id) == {Up(archs, id, k) : k \in 1..Len(archs)}

CyclesOf(archs) == {CycleOf(archs, id) : id \in {x \in IdsOf(archs) : OnCycle(archs, x)}}

Acyclic(archs) == \A id \in IdsOf(archs) : ~OnCycle(archs, id)

MinStr(S) == CHOOSE x \in S : \A y \in S \ {x} : StrLess(x, y)

\* position of id in a sequence without repetitions, 0 when absent
PosIn(seq, id) ==
    IF id \in Range(seq) THEN CHOOSE i \in 1..Len(seq) : seq[i] = id ELSE 0

IndexPermutations(n) == {p \in [1..n -> 1..n] : \A i, j \in 1..n : p[i] = p[j] => i = j}

Permuted(archs, p) == [i \in 1..Len(archs) |-> archs[p[i]]]

\* always take the smallest id among the nodes whose in-collection parent has
\* been emitted, until no node is left to take
RECURSIVE GreedyOrder(_, _)
GreedyOrder(archs, emitted) ==
    LET ready == {id \in IdsOf(archs) \ Range(emitted) :
                    ParentIn(archs, id) = None \/ ParentIn(archs, id) \in Range(emitted)}
    IN  IF ready = {} THEN emitted
        ELSE GreedyOrder(archs, Append(emitted, MinStr(ready)))

(***************************************************************************)
(* C1: for a collection with distinct ids and an acyclic parent relation,  *)
(* dependency_order_for_archetypes returns no issue and an order holding   *)
(* every id exactly once, each archetype strictly after its parent when    *)
(* the parent is in the collection.                                        *)
(***************************************************************************)
C1_ValidLinearization ==
    (dep_pc = "done" /\ DistinctIds(archetypes) /\ Acyclic(archetypes)) =>
        /\ dep_issues = <<>>
        /\ Len(dep_order) = Cardinality(IdsOf(archetypes))
        /\ Range(dep_order) = IdsOf(archetypes)
        /\ \A id \in IdsOf(archetypes) :
              ParentIn(archetypes, id) # None =>
                  PosIn(dep_order, ParentIn(archetypes, id)) < PosIn(dep_order, id)

\* three archetypes, the child listed before its parent, ordered
C1_Witness ==
    /\ dep_pc = "done"
    /\ Len(archetypes) = 3
    /\ DistinctIds(archetypes)
    /\ Acyclic(archetypes)
    /\ archetypes[1].parent_archetype_id = archetypes[2].archetype_id
    /\ Len(dep_order) = 3

(***************************************************************************)
(* C2: for a collection with distinct ids the returned order is the same   *)
(* for every ordering of the input, and it is the order obtained by always *)
(* taking the smallest id among the nodes whose in-scope dependencies have *)
(* been emitted.                                                           *)
(***************************************************************************)
PermutationInvariant ==
    \A p \in IndexPermutations(Len(archetypes)) :
        dependency_order_for_archetypes(Permuted(archetypes, p)).order = dep_order

\* C2 as stated: the greedy order for every collection with distinct ids
C2_Original ==
    (dep_pc = "done" /\ DistinctIds(archetypes)) =>
        /\ PermutationInvariant
        /\ dep_order = GreedyOrder(archetypes, <<>>)

\* C2 amended: the greedy order whenever the parent relation is acyclic
\* (with a cycle the returned order is empty, whatever the greedy walk emits)
C2_Amended ==
    (dep_pc = "done" /\ DistinctIds(archetypes)) =>
        /\ PermutationInvariant
        /\ Acyclic(archetypes) => dep_order = GreedyOrder(archetypes, <<>>)

\* "b" listed first, "ab" specialises "a": the released child "ab" must
\* overtake the waiting "b"
C2_Witness ==
    /\ dep_pc = "done"
    /\ DistinctIds(archetypes)
    /\ Len(archetypes) = 3
    /\ archetypes[1].archetype_id = <<2>>
    /\ dep_order = <<<<1>>, <<1, 2>>, <<2>>>>
    /\ \E i \in 1..3 : archetypes[i] = Archetype(<<1, 2>>, <<1>>, NoObject)

(***************************************************************************)
(* C3: when the parent relation of the collection contains a cycle (a      *)
(* self-loop included) the returned order is empty and some ERROR issue    *)
(* OPT705 names every id on that cycle.                                    *)
(***************************************************************************)
C3_CycleReported ==
    dep_pc = "done" =>
        \A id \in IdsOf(archetypes) :
            OnCycle(archetypes, id) =>
                /\ dep_order = <<>>
                /\ \E i \in 1..Len(dep_issues) :
                      /\ dep_issues[i].code = "OPT705"
                      /\ dep_issues[i].severity = "ERROR"
                      /\ CycleOf(archetypes, id) \subseteq Range(dep_issues[i].args)

\* a self-loop next to a two-node cycle
C3_Witness ==
    /\ dep_pc = "done"
    /\ Cardinality(CyclesOf(archetypes)) = 2
    /\ \E c \in CyclesOf(archetypes) : Cardinality(c) = 1
    /\ \E c \in CyclesOf(archetypes) : Cardinality(c) = 2

(***************************************************************************)
(* C4: one OPT705 per distinct cycle: as many issues as cycles, no two     *)
(* issues about the same cycle, each rendered cycle starting and ending at *)
(* the smallest id of its cycle.                                           *)
(***************************************************************************)
C4_OneIssuePerCycle ==
    dep_pc = "done" =>
        /\ Len(dep_issues) = Cardinality(CyclesOf(archetypes))
        /\ \A i \in 1..Len(dep_issues) :
              /\ dep_issues[i].code = "OPT705"
              /\ Range(dep_issues[i].args) \in CyclesOf(archetypes)
              /\ Len(dep_issues[i].args) = Cardinality(Range(dep_issues[i].args)) + 1
              /\ dep_issues[i].args[1] = MinStr(Range(dep_issues[i].args))
              /\ dep_issues[i].args[Len(dep_issues[i].args)] = dep_issues[i].args[1]
        /\ \A i, j \in 1..Len(dep_issues) :
              Range(dep_issues[i].args) = Range(dep_issues[j].args) => i = j

\* the traversal enters the cycle {ab, b} at "b", coming from "a"
C4_Witness ==
    /\ dep_pc = "done"
    /\ Len(dep_issues) = 1
    /\ dep_issues[1].args = <<<<1, 2>>, <<2>>, <<1, 2>>>>
    /\ \E i \in 1..Len(archetypes) : archetypes[i] = Archetype(<<1>>, <<2>>, NoObject)


(***************************************************************************)
(* Regular expressions, stated without the matcher.                        *)
(***************************************************************************)
\* the pattern compiles: no '*' without an item to repeat, no repetition
\* count beyond the limit
WellFormed(pattern) ==
    \A i \in 1..Len(pattern) :
        /\ pattern[i] # 5
        /\ pattern[i] = 4 => (i > 1 /\ pattern[i - 1] # 4)

\* the items of a well-formed pattern: position and whether a '*' follows
ItemPositions(pattern) == {i \in 1..Len(pattern) : pattern[i] # 4}

Starred(pattern, i) == i < Len(pattern) /\ pattern[i + 1] = 4

\* the whole value is cut into one segment per item, in order: one matching
\* character for a plain item, any number of matching characters for a
\* starred one
WholeMatch(pattern, value) ==
    LET pos == ItemPositions(pattern)
        n == Cardinality(pos)
        at(k) == CHOOSE i \in pos : Cardinality({j \in pos : j < i}) = k - 1
    IN  \E cut \in [0..n -> 0..Len(value)] :
            /\ cut[0] = 0
            /\ cut[n] = Len(value)
            /\ \A k \in 1..n :
                  /\ cut[k - 1] <= cut[k]
                  /\ Starred(pattern, at(k)) \/ cut[k] = cut[k - 1] + 1
                  /\ \A j \in (cut[k - 1] + 1)..cut[k] :
                        pattern[at(k)] = 3 \/ pattern[at(k)] = value[j]

(***************************************************************************)
(* Slot candidates, stated without the matcher.                            *)
(***************************************************************************)
\* a pattern that is no well-formed regex matches no id
RefPatternMatches(pattern, id) ==
    \/ pattern.kind = "exact" /\ pattern.value = id
    \/ pattern.kind = "regex" /\ WellFormed(pattern.value) /\ WholeMatch(pattern.value, id)

Candidates(slot, archs) ==
    {id \in IdsOf(archs) :
        /\ \/ slot.includes = <<>>
           \/ \E i \in 1..Len(slot.includes) : RefPatternMatches(slot.includes[i], id)
        /\ \/ slot.excludes = <<>>
           \/ \A i \in 1..Len(slot.excludes) : ~RefPatternMatches(slot.excludes[i], id)}

IsSlot(node) == node.class = "CArchetypeSlot"

\* the slots of a definition in traversal order, those some archetype can
\* fill and those none can
SlotsOf(definition) == SelectSeq(_iter_cobjects(definition), IsSlot)

FilledSlots(definition, archs) ==
    LET HasCandidate(node) == Candidates(node, archs) # {}
    IN  SelectSeq(SlotsOf(definition), HasCandidate)

UnfilledSlots(definition, archs) ==
    LET HasNone(node) == Candidates(node, archs) = {}
    IN  SelectSeq(SlotsOf(definition), HasNone)

IssuesOfCode(issues, code) ==
    LET HasCode(i) == i.code = code
    IN  SelectSeq(issues, HasCode)

(***************************************************************************)
(* C5: when compile_opt returns, opt is None if and only if the returned   *)
(* issue list holds at least one ERROR; a returned OperationalTemplate     *)
(* comes with no ERROR.                                                    *)
(***************************************************************************)
C5_NoneIffError ==
    comp_pc = "done" => (opt = NoObject <=> HasError(comp_issues))

\* flattening the root over its parent reported the only ERROR of the run
C5_Witness ==
    /\ comp_pc = "done"
    /\ opt = NoObject
    /\ "flatten" \in ran
    /\ IssuesOfCode(comp_issues, "OPT730") = comp_issues

(***************************************************************************)
(* C6: once the scope is decided, every archetype of the scope whose       *)
(* parent is not loaded gets exactly one OPT700 ERROR naming that parent   *)
(* and that archetype, in scope order; when there is one, compile_opt      *)
(* returns opt = None and runs neither cycle detection and ordering nor    *)
(* flattening.                                                             *)
(***************************************************************************)
ParentNotLoaded(a) ==
    a.parent_archetype_id # None /\ a.parent_archetype_id \notin IdsOf(repo)

C6_MissingParents ==
    "missing" \in ran =>
        LET missing == SelectSeq(scope, ParentNotLoaded)
            reported == IssuesOfCode(comp_issues, "OPT700")
        IN  /\ Len(reported) = Len(missing)
            /\ \A i \in 1..Len(missing) :
                  /\ reported[i].severity = "ERROR"
                  /\ reported[i].args =
                        <<missing[i].parent_archetype_id, missing[i].archetype_id>>
            /\ missing # <<>> =>
                  /\ comp_pc = "done"
                  /\ opt = NoObject
                  /\ ran \cap {"order", "flatten"} = {}

\* two archetypes of the scope miss their parent, both are reported
C6_Witness ==
    /\ comp_pc = "done"
    /\ "missing" \in ran
    /\ Len(SelectSeq(scope, ParentNotLoaded)) = 2
    /\ Len(IssuesOfCode(comp_issues, "OPT700")) = 2

(***************************************************************************)
(* C7: when the template definition has slots no repository archetype      *)
(* fills, slot resolution emits exactly one OPT720 ERROR for each of them, *)
(* in traversal order, goes on to the remaining slots, and compile_opt     *)
(* returns (None, issues) with those issues.                               *)
(***************************************************************************)
C7_Original ==
    (comp_pc \in {"done", "raised"} /\ template # NoObject
        /\ UnfilledSlots(template, repo) # <<>>) =>
        LET unfilled == UnfilledSlots(template, repo)
            reported == IssuesOfCode(comp_issues, "OPT720")
        IN  /\ comp_pc = "done"
            /\ opt = NoObject
            /\ Len(reported) = Len(unfilled)
            /\ \A i \in 1..Len(unfilled) :
                  /\ reported[i].severity = "ERROR"
                  /\ reported[i] = SlotIssue(unfilled[i])

(***************************************************************************)
(* C8: every slot with at least one candidate selects the smallest id of   *)
(* its candidate set, whatever the order of the repository, and the ids    *)
(* returned for all the slots are deduplicated and sorted.                 *)
(***************************************************************************)
C8_Original ==
    (slot_pc \in {"done", "raised"} /\ FilledSlots(template, repo) # <<>>) =>
        LET filled == FilledSlots(template, repo)
        IN  /\ slot_pc = "done"
            /\ slot_acc.selected = [i \in 1..Len(filled) |-> MinStr(Candidates(filled[i], repo))]
            /\ Range(slot_result) = Range(slot_acc.selected)
            /\ \A i \in 1..(Len(slot_result) - 1) : StrLess(slot_result[i], slot_result[i + 1])
            /\ \A p \in IndexPermutations(Len(repo)) :
                  _fill_slots(template, Permuted(repo, p)).selected = slot_result

(***************************************************************************)
(* C9: an exact pattern matches by string equality only; a regex pattern   *)
(* matches only when the whole id matches; a malformed regex or an unknown *)
(* pattern kind matches no id and never raises.                            *)
(***************************************************************************)
C9_Original ==
    pm_result # "pending" /\ pm_result # "idle" =>
        /\ pm_kind = "exact" => (pm_result = "True" <=> pm_value = pm_pattern)
        /\ (pm_kind = "regex" /\ pm_result = "True") => WholeMatch(pm_pattern, pm_value)
        /\ (pm_kind \notin {"exact", "regex"} \/ (pm_kind = "regex" /\ ~WellFormed(pm_pattern)))
              => pm_result = "False"
        /\ pm_result \in {"True", "False"}

(***************************************************************************)
(* C10: on success component_archetype_ids is the dependency order of the  *)
(* scope: the selected ids and all their ancestors when slot resolution    *)
(* selected an id, every archetype of the repository otherwise; no id      *)
(* outside the scope appears and none inside it is missing.                *)
(***************************************************************************)
AncestorsOrSelf(archs, id) == {Up(archs, id, k) : k \in 0..Len(archs)} \ {None}

ScopeIds ==
    IF selected_ids # <<>>
    THEN UNION {AncestorsOrSelf(repo, id) : id \in Range(selected_ids)}
    ELSE IdsOf(repo)

C10_ScopeOrder ==
    (comp_pc = "done" /\ opt # NoObject) =>
        LET ids == opt.component_archetype_ids
        IN  /\ Range(ids) = ScopeIds
            /\ Len(ids) = Cardinality(ScopeIds)
            /\ \A id \in ScopeIds :
                  ParentIn(repo, id) # None =>
                      PosIn(ids, ParentIn(repo, id)) < PosIn(ids, id)
            /\ ids = GreedyOrder(SelectSeq(repo, LAMBDA a : a.archetype_id \in ScopeIds), <<>>)

\* the slot selects "ab", whose parent "a" comes with it; "b" stays out
C10_Witness ==
    /\ comp_pc = "done"
    /\ opt # NoObject
    /\ Len(repo) = 3
    /\ selected_ids = <<<<1, 2>>>>
    /\ opt.component_archetype_ids = <<<<1>>, <<1, 2>>>>

(***************************************************************************)
(* The ancestor chain of an archetype and the fold of the merge over it.   *)
(***************************************************************************)
\* the chain of parents of id ends inside the collection
ChainEnds(archs, id) == \E k \in 1..Len(archs) : Up(archs, id, k) = None

\* the ancestors of id and id itself, the most distant ancestor first
AncestorChain(archs, id) ==
    LET d == CHOOSE k \in 0..Len(archs) :
                Up(archs, id, k) # None /\ Up(archs, id, k + 1) = None
    IN  [i \in 1..(d + 1) |-> RepoGet(archs, Up(archs, id, d + 1 - i))]

\* a merge result joined to the issues so far: a conflict leaves no tree
FoldResult(issues, m) ==
    IF HasError(issues \o m.issues)
    THEN [definition |-> NoObject, issues |-> issues \o m.issues]
    ELSE [definition |-> m.value, issues |-> issues \o m.issues]

\* one merge of the fold: a side without definition contributes nothing
FoldStep(acc, definition) ==
    IF HasError(acc.issues) THEN acc
    ELSE IF acc.definition = NoObject THEN [acc EXCEPT !.definition = definition]
    ELSE IF definition = NoObject THEN acc
    ELSE FoldResult(acc.issues, _merge_objects(acc.definition, definition, <<47>>))

RECURSIVE FoldMerge(_, _, _)
FoldMerge(chain, i, acc) ==
    IF i > Len(chain) THEN acc
    ELSE FoldMerge(chain, i + 1, FoldStep(acc, chain[i].definition))

(***************************************************************************)
(* C11: flattening an archetype whose chain of parents ends equals the     *)
(* left-to-right fold of the merge over the chain from the most distant    *)
(* ancestor to the archetype itself, an archetype without definition       *)
(* contributing nothing and a conflict leaving no tree.                    *)
(***************************************************************************)
C11_FlattenIsFold ==
    (fl_pc \in {"done", "raised"} /\ ChainEnds(repo, fl_archetype.archetype_id)) =>
        LET chain == AncestorChain(repo, fl_archetype.archetype_id)
            fold == FoldMerge(chain, 2, [definition |-> chain[1].definition,
                                         issues |-> <<>>])
        IN  /\ fl_pc = "done"
            /\ fl_result.definition = fold.definition
            /\ fl_result.issues = fold.issues

\* grandparent "a" (occurrences 0..2 on [a]), parent "ab" (another
\* attribute), child "b" (occurrences 0..1 on [a]): both attributes, and the
\* child's occurrences
C11_Witness ==
    /\ fl_pc = "done"
    /\ fl_archetype = Archetype(<<2>>, <<1, 2>>, RootWithNode(<<1>>, Interval(0, 1, NoObject)))
    /\ RepoGet(repo, <<1, 2>>) = Archetype(<<1, 2>>, <<1>>, RootWithPrimitive)
    /\ RepoGet(repo, <<1>>) = Archetype(<<1>>, None, RootWithNode(<<1>>, Interval(0, 2, NoObject)))
    /\ fl_result.issues = <<>>
    /\ Len(fl_result.definition.attributes) = 2
    /\ fl_result.definition.attributes[1].children[1].occurrences = Interval(0, 1, NoObject)

(***************************************************************************)
(* C12: an archetype with no parent flattens to its own definition, the    *)
(* attributes and children as they are and in their order, with no issue.  *)
(***************************************************************************)
C12_Identity ==
    (fl_pc \in {"done", "raised"} /\ fl_archetype.parent_archetype_id = None) =>
        /\ fl_pc = "done"
        /\ fl_result.definition = fl_archetype.definition
        /\ fl_result.issues = <<>>

\* a definition whose attributes are not in name order comes back as it is
C12_Witness ==
    /\ fl_pc = "done"
    /\ fl_archetype.parent_archetype_id = None
    /\ fl_archetype.definition = RootUnsorted
    /\ fl_result.definition = RootUnsorted

(***************************************************************************)
(* C13: when the flattened parent and the child define an object at the    *)
(* same position (the root, or children of one attribute with one node id) *)
(* with different RM types, flattening reports exactly one OPT730 for that *)
(* position, and compile_opt returns opt = None.                           *)
(***************************************************************************)
NodeIdsOf(children) ==
    {children[i].node_id : i \in 1..Len(children)} \ {None}

ChildOfId(children, node_id) ==
    children[CHOOSE i \in 1..Len(children) : children[i].node_id = node_id]

\* the positions, as (path, node id), where p and c disagree on the RM type;
\* the node ids of siblings are distinct
RECURSIVE Mismatches(_, _, _)
Mismatches(p, c, path) ==
    IF p.rm_type_name # c.rm_type_name THEN {<<path, None>>}
    ELSE UNION {
        LET pa == AttributeByName(p.attributes, name)
            ca == AttributeByName(c.attributes, name)
            attr_path == _join_path(path, name, None)
        IN  UNION {
               IF ChildOfId(pa.children, id).rm_type_name
                      # ChildOfId(ca.children, id).rm_type_name
               THEN {<<attr_path, id>>}
               ELSE Mismatches(ChildOfId(pa.children, id), ChildOfId(ca.children, id),
                               _join_path(attr_path, None, id))
               : id \in NodeIdsOf(pa.children) \cap NodeIdsOf(ca.children)}
        : name \in AttributeNames(p.attributes) \cap AttributeNames(c.attributes)}

\* the OPT730 issues that name a position
IssuesAt(issues, position) ==
    LET At(i) == /\ i.code = "OPT730"
                 /\ i.args[1] = position[1]
                 /\ \/ position[2] = None /\ i.text = "RM type mismatch"
                    \/ position[2] # None /\ Len(i.args) > 1 /\ i.args[2] = position[2]
    IN  SelectSeq(issues, At)

\* the archetype compile_opt flattens, its flattened parent and its definition
RootArchetype == RepoGet(repo, comp_order[Len(comp_order)])

FlattenedParent ==
    LET chain == AncestorChain(repo, RootArchetype.archetype_id)
    IN  IF Len(chain) < 2 THEN [definition |-> NoObject, issues |-> <<>>]
        ELSE FoldMerge(SubSeq(chain, 1, Len(chain) - 1), 2,
                       [definition |-> chain[1].definition, issues |-> <<>>])

C13_TypeMismatch ==
    (/\ comp_pc \in {"done", "raised"}
     /\ "flatten" \in ran
     /\ comp_order # <<>>
     /\ RootArchetype.definition # NoObject
     /\ FlattenedParent.definition # NoObject
     /\ Mismatches(FlattenedParent.definition, RootArchetype.definition, <<47>>) # {}) =>
        /\ comp_pc = "done"
        /\ opt = NoObject
        /\ \A position \in Mismatches(FlattenedParent.definition,
                                      RootArchetype.definition, <<47>>) :
              Len(IssuesAt(comp_issues, position)) = 1

\* the parent has [a] as one RM type under x, the child as another
C13_Witness ==
    /\ comp_pc = "done"
    /\ "flatten" \in ran
    /\ opt = NoObject
    /\ Len(comp_issues) = 1
    /\ comp_issues[1].code = "OPT730"
    /\ comp_issues[1].args[1] = <<47, 1>>
    /\ comp_issues[1].args[2] = <<1>>

(***************************************************************************)
(* C14: every OperationalTemplate a compilation returns passes the OPT     *)
(* integrity validator without an issue.                                   *)
(***************************************************************************)
C14_Original ==
    (comp_pc = "done" /\ opt # NoObject) => check_opt_integrity(opt) = <<>>

(***************************************************************************)
(* C15: the issues compile_opt returns are sorted by (file, line, col,     *)
(* code, message): no issue is followed by one with a smaller key.         *)
(***************************************************************************)
C15_Original ==
    comp_pc = "done" =>
        \A k \in 1..(Len(comp_issues) - 1) : ~KeyLess(comp_issues[k + 1], comp_issues[k])

(***************************************************************************)
(* C16: spans never influence the logic: trees that differ only in their   *)
(* spans give the same outcome, the same conflicts and the same merged     *)
(* tree apart from spans.                                                  *)
(***************************************************************************)
\* the tree with every span of its nodes, intervals, cardinalities and
\* primitive constraints set to None
RECURSIVE WithoutSpans(_)
WithoutSpans(o) ==
    IF o = NoObject THEN NoObject
    ELSE IF o.class \in {"Interval", "PrimitiveStringConstraint"}
    THEN [o EXCEPT !.span = NoObject]
    ELSE IF o.class = "Cardinality"
    THEN [o EXCEPT !.span = NoObject, !.occurrences = WithoutSpans(@)]
    ELSE [o EXCEPT
            !.span = NoObject,
            !.occurrences = WithoutSpans(@),
            !.constraint = WithoutSpans(@),
            !.attributes =
                [i \in 1..Len(@) |->
                    [@[i] EXCEPT
                        !.span = NoObject,
                        !.existence = WithoutSpans(@),
                        !.cardinality = WithoutSpans(@),
                        !.children = [j \in 1..Len(@) |-> WithoutSpans(@[j])]]]]

\* the conflicts of a merge: what each reports and where
Conflicts(issues) == {<<issues[i].code, issues[i].text, issues[i].args>> : i \in 1..Len(issues)}

C16_Original ==
    mg_pc = "done" =>
        LET bare == _merge_objects(WithoutSpans(mg_parent), WithoutSpans(mg_child), <<47>>)
        IN  /\ HasError(mg_result.issues) = HasError(bare.issues)
            /\ Conflicts(mg_result.issues) = Conflicts(bare.issues)
            /\ WithoutSpans(mg_result.value) = WithoutSpans(bare.value)

(***************************************************************************)
(* C17: in a compiled OPT tree the root's path is "/", an attribute's path *)
(* is its owner's path, a '/' (one under the root) and its name, a child's *)
(* path is its attribute's path with "[node_id]" when it has a node id, so *)
(* every object's path strictly extends that of the object containing it.  *)
(***************************************************************************)
\* the objects of a tree, of the AOM or of the OPT
RECURSIVE OptObjects(_)
OptObjects(o) ==
    {o} \cup UNION {UNION {OptObjects(o.attributes[i].children[j]) :
                               j \in 1..Len(o.attributes[i].children)} :
                      i \in 1..Len(o.attributes)}

C17_Paths ==
    (comp_pc = "done" /\ opt # NoObject /\ opt.definition # NoObject) =>
        /\ opt.definition.path = <<47>>
        /\ \A o \in OptObjects(opt.definition) :
             \A i \in 1..Len(o.attributes) :
                LET a == o.attributes[i]
                IN  /\ a.path = (IF o.path = <<47>> THEN <<47>> ELSE o.path \o <<47>>)
                                    \o a.rm_attribute_name
                    /\ \A j \in 1..Len(a.children) :
                          LET c == a.children[j]
                          IN  /\ c.path = a.path \o (IF c.node_id # None
                                                     THEN <<91>> \o c.node_id \o <<93>>
                                                     ELSE <<>>)
                              /\ StartsWith(c.path, o.path)
                              /\ Len(c.path) > Len(o.path)

\* a tree with an attribute under a node that has a node id, over a child
\* that has none: "/x[a]/y"
C17_Witness ==
    /\ comp_pc = "done"
    /\ opt # NoObject
    /\ opt.definition # NoObject
    /\ \E o \in OptObjects(opt.definition) :
          /\ o.path = <<47, 1, 91, 1, 93>>
          /\ o.attributes # <<>>
          /\ o.attributes[1].path = <<47, 1, 91, 1, 93, 47, 2>>
          /\ o.attributes[1].children # <<>>
          /\ o.attributes[1].children[1].node_id = None
          /\ o.attributes[1].children[1].path = <<47, 1, 91, 1, 93, 47, 2>>

(***************************************************************************)
(* C18: the merge of two complex objects of one RM type has the union of   *)
(* the two sides' attribute names, each once and in ascending order, and   *)
(* keeps an attribute of one side only as it is; so an attribute a child   *)
(* adds under a node matched by node id reaches the OPT with its children. *)
(***************************************************************************)
NamesOf(attributes) == {attributes[i].rm_attribute_name : i \in 1..Len(attributes)}

\* m has the attributes of p and c by the rule of the claim
AttributeUnion(m, p, c) ==
    /\ NamesOf(m.attributes) = NamesOf(p.attributes) \cup NamesOf(c.attributes)
    /\ \A i \in 1..(Len(m.attributes) - 1) :
          StrLess(m.attributes[i].rm_attribute_name, m.attributes[i + 1].rm_attribute_name)
    /\ \A i \in 1..Len(m.attributes) :
          LET name == m.attributes[i].rm_attribute_name
          IN  /\ name \notin NamesOf(c.attributes) => m.attributes[i] \in Range(p.attributes)
              /\ name \notin NamesOf(p.attributes) => m.attributes[i] \in Range(c.attributes)

\* the attributes both sides have, as triples of the merged, the parent's
\* and the child's
CommonAttributes(m, p, c) ==
    {<<m.attributes[i], p.attributes[j], c.attributes[k]>> :
        <<i, j, k>> \in {t \in (1..Len(m.attributes)) \X (1..Len(p.attributes))
                                    \X (1..Len(c.attributes)) :
            /\ m.attributes[t[1]].rm_attribute_name = p.attributes[t[2]].rm_attribute_name
            /\ m.attributes[t[1]].rm_attribute_name = c.attributes[t[3]].rm_attribute_name}}

C18_AttributeUnion ==
    (/\ mg_pc = "done"
     /\ mg_parent.class = "CComplexObject"
     /\ mg_child.class = "CComplexObject"
     /\ mg_parent.rm_type_name = mg_child.rm_type_name
     /\ ~HasError(mg_result.issues)) =>
        /\ AttributeUnion(mg_result.value, mg_parent, mg_child)
        /\ \A t \in CommonAttributes(mg_result.value, mg_parent, mg_child) :
              \A n \in NodeIdsOf(t[2].children) \cap NodeIdsOf(t[3].children) :
                 /\ n \in NodeIdsOf(t[1].children)
                 /\ AttributeUnion(ChildOfId(t[1].children, n), ChildOfId(t[2].children, n),
                                   ChildOfId(t[3].children, n))
        /\ LET o == aom_definition_to_opt(mg_result.value, <<47>>, <<1>>)
           IN  \A t \in CommonAttributes(mg_result.value, mg_parent, mg_child) :
                  \A n \in NodeIdsOf(t[2].children) \cap NodeIdsOf(t[3].children) :
                     \E x \in OptObjects(o) :
                        /\ x.path = <<47>> \o t[1].rm_attribute_name \o <<91>> \o n \o <<93>>
                        /\ \A i \in 1..Len(ChildOfId(t[3].children, n).attributes) :
                              LET added == ChildOfId(t[3].children, n).attributes[i]
                              IN  added.rm_attribute_name
                                      \notin NamesOf(ChildOfId(t[2].children, n).attributes)
                                  => \E k \in 1..Len(x.attributes) :
                                        /\ x.attributes[k].rm_attribute_name
                                               = added.rm_attribute_name
                                        /\ Len(x.attributes[k].children) = Len(added.children)
                                        /\ \A j \in 1..Len(added.children) :
                                              x.attributes[k].children[j].rm_type_name
                                                  = added.children[j].rm_type_name

\* the child adds the attribute y and what is under it to the node [a] of x,
\* which the parent has without attribute; the merge keeps it
C18_Witness ==
    /\ mg_pc = "done"
    /\ mg_parent.class = "CComplexObject"
    /\ mg_child.class = "CComplexObject"
    /\ Len(mg_parent.attributes) = 1
    /\ Len(mg_child.attributes) = 1
    /\ mg_parent.attributes[1].children # <<>>
    /\ mg_child.attributes[1].children # <<>>
    /\ mg_parent.attributes[1].children[1].attributes = <<>>
    /\ mg_child.attributes[1].children[1].attributes # <<>>
    /\ mg_result.issues = <<>>
    /\ mg_result.value.attributes[1].children[1].attributes
           = mg_child.attributes[1].children[1].attributes

(***************************************************************************)
(* C19: compile_opt returns an (opt, issues) pair for every template and   *)
(* every loaded repository; no exception leaves it.                        *)
(***************************************************************************)
C19_Original == comp_pc # "raised"

(***************************************************************************)
(* C20: the merge of two primitive objects of one RM type reports a        *)
(* conflict exactly when both sides supply a primitive constraint and the  *)
(* two differ; otherwise the child's constraint and occurrences override   *)
(* the parent's where the child supplies them, the parent's are kept where *)
(* it does not.                                                            *)
(***************************************************************************)
C20_Original ==
    (/\ mg_pc = "done"
     /\ mg_parent.class = "CPrimitiveObject"
     /\ mg_child.class = "CPrimitiveObject"
     /\ mg_parent.rm_type_name = mg_child.rm_type_name) =>
        LET differ == /\ mg_parent.constraint # NoObject
                      /\ mg_child.constraint # NoObject
                      /\ WithoutSpans(mg_parent.constraint) # WithoutSpans(mg_child.constraint)
        IN  /\ HasError(mg_result.issues) <=> differ
            /\ ~differ =>
                 /\ mg_result.value.constraint =
                        IF mg_child.constraint # NoObject THEN mg_child.constraint
                        ELSE mg_parent.constraint
                 /\ mg_result.value.occurrences =
                        IF mg_child.occurrences # NoObject THEN mg_child.occurrences
                        ELSE mg_parent.occurrences

(***************************************************************************)
(* C21: the merge of two slots reports a conflict on the include list (on  *)
(* the exclude list) exactly when the child's and the parent's list are    *)
(* both non-empty and differ; a non-empty child list overrides an empty    *)
(* parent list, an empty child list keeps the parent's.                    *)
(***************************************************************************)
C21_Original ==
    (/\ mg_pc = "done"
     /\ mg_parent.class = "CArchetypeSlot"
     /\ mg_child.class = "CArchetypeSlot"
     /\ mg_parent.rm_type_name = mg_child.rm_type_name) =>
        LET differ(p, c) == p # <<>> /\ c # <<>> /\ p # c
            merged(p, c) == IF c # <<>> THEN c ELSE p
            conflict == \/ differ(mg_parent.includes, mg_child.includes)
                        \/ differ(mg_parent.excludes, mg_child.excludes)
        IN  /\ HasError(mg_result.issues) <=> conflict
            /\ ~conflict =>
                 /\ mg_result.value.includes = merged(mg_parent.includes, mg_child.includes)
                 /\ mg_result.value.excludes = merged(mg_parent.excludes, mg_child.excludes)

(***************************************************************************)
(* C22: in the merge of the children of one attribute every object that    *)
(* only one side has passes through unchanged, whatever the lists, so a    *)
(* merge without conflict drops no child of either side.                   *)
(***************************************************************************)
\* the indices of the children whose identity key no child of others has
OneSided(children, others) ==
    {i \in 1..Len(children) :
        \A j \in 1..Len(others) : ChildKey(others[j]) # ChildKey(children[i])}

\* how often the object o occurs in the list
Occurrences(children, o) == Cardinality({i \in 1..Len(children) : children[i] = o})

C22_Original ==
    (/\ mg_pc = "done"
     /\ mg_parent.class = "CComplexObject"
     /\ mg_child.class = "CComplexObject"
     /\ mg_result.issues = <<>>) =>
        \A t \in CommonAttributes(mg_result.value, mg_parent, mg_child) :
            /\ \A i \in OneSided(t[2].children, t[3].children) :
                  Occurrences(t[1].children, t[2].children[i])
                      >= Occurrences(t[2].children, t[2].children[i])
            /\ \A i \in OneSided(t[3].children, t[2].children) :
                  Occurrences(t[1].children, t[3].children[i])
                      >= Occurrences(t[3].children, t[3].children[i])

(***************************************************************************)
(* C23: conflicts are collected across siblings within one merge: each     *)
(* attribute whose existence differs, each whose cardinality differs and   *)
(* each matched child that conflicts has its OPT730 in the returned list.  *)
(***************************************************************************)
\* both sides state the value and the two differ, spans apart
Differ(p, c) == p # NoObject /\ c # NoObject /\ WithoutSpans(p) # WithoutSpans(c)

HasIssue(issues, text, args) ==
    \E i \in 1..Len(issues) :
        /\ issues[i].code = "OPT730"
        /\ issues[i].text = text
        /\ issues[i].args = args

\* the pairs of a parent's and a child's attribute of one name
AttributePairs(p, c) ==
    {<<p.attributes[j], c.attributes[k]>> :
        <<j, k>> \in {t \in (1..Len(p.attributes)) \X (1..Len(c.attributes)) :
            p.attributes[t[1]].rm_attribute_name = c.attributes[t[2]].rm_attribute_name}}

C23_Collected ==
    (/\ mg_pc = "done"
     /\ mg_parent.class = "CComplexObject"
     /\ mg_child.class = "CComplexObject"
     /\ mg_parent.rm_type_name = mg_child.rm_type_name) =>
        \A t \in AttributePairs(mg_parent, mg_child) :
            LET path == <<47>> \o t[1].rm_attribute_name
            IN  /\ Differ(t[1].existence, t[2].existence)
                      => HasIssue(mg_result.issues, "interval differs", <<path>>)
                /\ Differ(t[1].cardinality, t[2].cardinality)
                      => HasIssue(mg_result.issues, "cardinality differs", <<path>>)
                /\ \A n \in NodeIdsOf(t[1].children) \cap NodeIdsOf(t[2].children) :
                      LET pn == ChildOfId(t[1].children, n)
                          cn == ChildOfId(t[2].children, n)
                      IN  pn.rm_type_name # cn.rm_type_name
                             => HasIssue(mg_result.issues,
                                         "node_id reused with different RM type",
                                         <<path, n, pn.rm_type_name, cn.rm_type_name>>)

\* the existence and the cardinality of x and the existence of y differ:
\* three conflicts in one list
C23_Witness ==
    /\ mg_pc = "done"
    /\ Len(mg_result.issues) = 3
    /\ HasIssue(mg_result.issues, "interval differs", <<<<47, 1>>>>)
    /\ HasIssue(mg_result.issues, "cardinality differs", <<<<47, 1>>>>)
    /\ HasIssue(mg_result.issues, "interval differs", <<<<47, 2>>>>)

(***************************************************************************)
(* C24: in a tree a successful flattening produces no two sibling objects  *)
(* under one attribute carry the same non-null node id.                    *)
(***************************************************************************)
UniqueNodeIds(children) ==
    \A i, j \in 1..Len(children) :
        (i # j /\ children[i].node_id # None) => children[i].node_id # children[j].node_id

C24_Original ==
    (mg_pc = "done" /\ mg_result.issues = <<>>) =>
        \A o \in OptObjects(mg_result.value) :
            \A i \in 1..Len(o.attributes) : UniqueNodeIds(o.attributes[i].children)

(***************************************************************************)
(* C25: the flattened tree does not depend on the order in which the       *)
(* attributes of an object and the children of an attribute were listed:   *)
(* listing them in another order leaves the result unchanged, attributes   *)
(* in name order and children in (rm_type_name, node_id or "") order at    *)
(* every level.                                                            *)
(***************************************************************************)
Reverse(seq) == [i \in 1..Len(seq) |-> seq[Len(seq) + 1 - i]]

\* the tree with the attributes of every object and the children of every
\* attribute listed in the opposite order
RECURSIVE Reversed(_)
Reversed(o) ==
    [o EXCEPT !.attributes =
        Reverse([i \in 1..Len(@) |->
                    [@[i] EXCEPT !.children =
                        Reverse([j \in 1..Len(@) |-> Reversed(@[j])])]])]

InOrder(o) ==
    /\ \A i \in 1..(Len(o.attributes) - 1) :
          ~StrLess(o.attributes[i + 1].rm_attribute_name, o.attributes[i].rm_attribute_name)
    /\ \A i \in 1..Len(o.attributes) :
          \A j \in 1..(Len(o.attributes[i].children) - 1) :
             ~TupleLess(SortKey(o.attributes[i].children[j + 1]),
                        SortKey(o.attributes[i].children[j]))

C25_Original ==
    (mg_pc = "done" /\ mg_result.issues = <<>>) =>
        /\ _merge_objects(mg_parent, Reversed(mg_child), <<47>>) = mg_result
        /\ \A o \in OptObjects(mg_result.value) : InOrder(o)


(***************************************************************************)
(* validation/issue_collector.py: IssueCollector                           *)
(***************************************************************************)
\* the most issues handed to one collector, and to one call
MaxIssues == 3

MaxBatch == 2

\* an int | None field: <<>> is None, <<n>> is n
NoInt == <<>>

\* Issue(code, severity, message, file, line, col)
LocatedIssue(code, severity, message, file, line, col) ==
    [code |-> code, severity |-> severity, message |-> message,
     file |-> file, line |-> line, col |-> col]

\* the issues the collector is handed: with and without file, line and col,
\* equal and different codes and messages, both severities
Issues ==
    {LocatedIssue(cms[1], cms[3], cms[2], file, line, col) :
        cms \in {<<(<<1>>), (<<1>>), "ERROR">>, <<(<<1>>), (<<1>>), "WARN">>,
                 <<(<<1>>), (<<2>>), "WARN">>, <<(<<2>>), (<<1>>), "ERROR">>},
        file \in {None, <<1>>},
        line \in {NoInt, <<1>>, <<2>>},
        col \in {NoInt, <<1>>}}

\* `x or 0`
OrZero(x) == IF x = NoInt THEN 0 ELSE x[1]

\* a key without the three `is None` flags of _issue_sort_key
IssueSortKeyWithoutFlags(issue) ==
    <<FALSE,
      IF issue.file = None THEN <<>> ELSE issue.file,
      FALSE,
      OrZero(issue.line),
      FALSE,
      OrZero(issue.col),
      issue.code,
      issue.message>>

\* _issue_sort_key, for an issue with any of file, line and col
IssueSortKey(issue) ==
    <<issue.file = None,
      IF issue.file = None THEN <<>> ELSE issue.file,
      issue.line = NoInt,
      OrZero(issue.line),
      issue.col = NoInt,
      OrZero(issue.col),
      issue.code,
      issue.message>>

\* x < y for two components of a key: bool, str or int by position
ComponentLess(i, x, y) ==
    CASE i \in {1, 3, 5} -> (x = FALSE /\ y = TRUE)
      [] i \in {2, 7, 8} -> StrLess(x, y)
      [] OTHER -> x < y

\* tuple.__lt__ on two keys
SortKeyLess(k1, k2) ==
    \E i \in 1..8 :
        /\ \A j \in 1..(i - 1) : k1[j] = k2[j]
        /\ ComponentLess(i, k1[i], k2[i])

\* list.sort(key=_issue_sort_key): stable, an element goes after its equals
RECURSIVE InsertIssue(_, _)
InsertIssue(sorted, x) ==
    IF sorted = <<>> THEN <<x>>
    ELSE IF SortKeyLess(IssueSortKey(x), IssueSortKey(Head(sorted)))
         THEN <<x>> \o sorted
         ELSE <<Head(sorted)>> \o InsertIssue(Tail(sorted), x)

RECURSIVE SortIssues(_)
SortIssues(l) ==
    IF l = <<>> THEN <<>>
    ELSE InsertIssue(SortIssues(SubSeq(l, 1, Len(l) - 1)), l[Len(l)])

\* IssueCollector.extend, on the list _issues
extend(_issues, issues) == SortIssues(_issues \o issues)

\* IssueCollector.has_errors
has_errors(_issues) == \E i \in 1..Len(_issues) : _issues[i].severity = "ERROR"

\* the iterables of at most MaxBatch issues
Batches == UNION {[1..n -> Issues] : n \in 0..MaxBatch}

\* IssueCollector(issues): issues is None, or extend(issues) on the empty list
IcInit ==
    /\ \E given \in {TRUE, FALSE} : \E issues \in Batches :
        /\ ~given => issues = <<>>
        /\ ic_issues = extend(<<>>, issues)
        /\ ic_added = issues
    /\ DepIdle
    /\ PmIdle
    /\ SlotIdle
    /\ CompIdle
    /\ FlIdle
    /\ MgIdle
    /\ RgIdle

\* collector.extend(issues)
IcExtend ==
    /\ \E issues \in Batches :
        /\ Len(ic_added) + Len(issues) <= MaxIssues
        /\ ic_issues' = extend(ic_issues, issues)
        /\ ic_added' = ic_added \o issues
    /\ UNCHANGED <<dep_vars, pm_vars, slot_vars, comp_vars, fl_vars, mg_vars, rg_vars>>

IcNext == IcExtend

SpecCollector == IcInit /\ [][IcNext]_vars

\* x comes strictly before y in the order (file with None last, line with
\* None last, col with None last, code, message)
OptionalBefore(x, y, none, less) ==
    IF y = none THEN x # none ELSE x # none /\ less

Before(x, y) ==
    IF x.file # y.file
    THEN OptionalBefore(x.file, y.file, None, StrLess(x.file, y.file))
    ELSE IF x.line # y.line
    THEN OptionalBefore(x.line, y.line, NoInt, OrZero(x.line) < OrZero(y.line))
    ELSE IF x.col # y.col
    THEN OptionalBefore(x.col, y.col, NoInt, OrZero(x.col) < OrZero(y.col))
    ELSE IF x.code # y.code
    THEN StrLess(x.code, y.code)
    ELSE StrLess(x.message, y.message)

\* how many times x occurs in l
Count(l, x) == Cardinality({i \in 1..Len(l) : l[i] = x})

\* C26: the stored sequence is in non-decreasing order of (file with None
\* last, line with None last, col with None last, code, message), holds
\* every issue added so far as many times as it was added, and has_errors()
\* is true exactly when an ERROR issue has been added.
C26_SortedAndComplete ==
    /\ \A i \in 1..Len(ic_issues) : \A j \in (i + 1)..Len(ic_issues) :
        ~Before(ic_issues[j], ic_issues[i])
    /\ Len(ic_issues) = Len(ic_added)
    /\ \A x \in Range(ic_added) \cup Range(ic_issues) :
        Count(ic_issues, x) = Count(ic_added, x)
    /\ has_errors(ic_issues) <=> (\E i \in 1..Len(ic_added) : ic_added[i].severity = "ERROR")

\* a collector built from a batch and extended twice, whose issues arrived
\* out of order, one of them twice, one an ERROR, some without a file
C26_Witness ==
    /\ Len(ic_added) = MaxIssues
    /\ ic_issues # ic_added
    /\ \E i \in 1..Len(ic_added) : ic_added[i].file = None /\ i < Len(ic_added)
           /\ ic_added[i + 1].file # None
    /\ \E x \in Range(ic_added) : Count(ic_added, x) = 2
    /\ has_errors(ic_issues)


(***************************************************************************)
(* validation/registry.py: ValidationRegistry                              *)
(***************************************************************************)
\* the most register calls on one registry
MaxRegistrations == 3

\* the layers argument None of run
AllLayers == <<"None">>

\* _Registration(layer, name, priority, order, check)
_Registration(layer, name, priority, order, check) ==
    [layer |-> layer, name |-> name, priority |-> priority, order |-> order,
     check |-> check]

\* the key (priority, name, order), priority not negated
RegistrationKeyPriorityAscending(reg) == <<reg.priority, reg.name, reg.order>>

\* _registration_sort_key
_registration_sort_key(reg) == <<0 - reg.priority, reg.name, reg.order>>

\* tuple.__lt__ on two keys (int, str, int)
RegistrationKeyLess(k1, k2) ==
    \/ k1[1] < k2[1]
    \/ k1[1] = k2[1] /\ StrLess(k1[2], k2[2])
    \/ k1[1] = k2[1] /\ k1[2] = k2[2] /\ k1[3] < k2[3]

\* sorted(registrations, key=_registration_sort_key): stable
RECURSIVE InsertRegistration(_, _)
InsertRegistration(sorted, reg) ==
    IF sorted = <<>> THEN <<reg>>
    ELSE IF RegistrationKeyLess(_registration_sort_key(reg),
                                _registration_sort_key(Head(sorted)))
         THEN <<reg>> \o sorted
         ELSE <<Head(sorted)>> \o InsertRegistration(Tail(sorted), reg)

RECURSIVE SortedRegistrations(_)
SortedRegistrations(l) ==
    IF l = <<>> THEN <<>>
    ELSE InsertRegistration(SortedRegistrations(SubSeq(l, 1, Len(l) - 1)), l[Len(l)])

\* tuple(layer for layer in _LAYER_ORDER if layer in wanted)
RECURSIVE LayersIn(_, _)
LayersIn(order, wanted) ==
    IF order = <<>> THEN <<>>
    ELSE (IF Head(order) \in wanted THEN <<Head(order)>> ELSE <<>>)
         \o LayersIn(Tail(order), wanted)

\* ValidationRegistry._select_layers
_select_layers(layers) ==
    IF layers = AllLayers THEN _LAYER_ORDER ELSE LayersIn(_LAYER_ORDER, Range(layers))

\* the loops of run: the registrations whose check is invoked, in order
RECURSIVE RunLayers(_, _)
RunLayers(selected_layers, registrations) ==
    IF selected_layers = <<>> THEN <<>>
    ELSE SortedRegistrations(registrations[Head(selected_layers)])
         \o RunLayers(Tail(selected_layers), registrations)

\* the checks registered: two functions, named a and b
Checks == {[__name__ |-> <<1>>], [__name__ |-> <<2>>]}

\* the layers arguments of run: None, none, one layer, one layer twice, two
\* layers against the pipeline order, all four against it
LayerArguments ==
    {AllLayers, <<>>, <<"semantic">>, <<"rm", "rm">>, <<"opt", "syntax">>,
     <<"opt", "rm", "semantic", "syntax">>}

\* ValidationRegistry()
RgInit ==
    /\ RgIdle
    /\ DepIdle
    /\ PmIdle
    /\ SlotIdle
    /\ CompIdle
    /\ FlIdle
    /\ MgIdle
    /\ IcIdle

\* registry.register(layer, check, name=name, priority=priority); a layer
\* that is no ValidationLayer raises ValueError and changes nothing.
\* rg_layers and rg_called describe a run of the present registrations.
RgRegister ==
    /\ rg_next_order < MaxRegistrations
    /\ \E layer \in Range(_LAYER_ORDER) \cup {"other"}, check \in Checks,
          name \in {None, <<>>, <<1>>}, priority \in {0, 1} :
        IF layer \notin DOMAIN rg_registrations
        THEN UNCHANGED rg_vars
        ELSE LET check_name == IF name = None \/ name = <<>>
                               THEN check.__name__ ELSE name
                 reg == _Registration(layer, check_name, priority, rg_next_order, check)
             IN  /\ rg_next_order' = rg_next_order + 1
                 /\ rg_registrations' =
                        [rg_registrations EXCEPT ![layer] = Append(@, reg)]
                 /\ rg_layers' = NoRun
                 /\ rg_called' = <<>>
    /\ UNCHANGED <<dep_vars, pm_vars, slot_vars, comp_vars, fl_vars, mg_vars, ic_vars>>

\* registry.run(ctx, layers=layers)
RgRun ==
    /\ \E layers \in LayerArguments :
        /\ rg_layers' = layers
        /\ rg_called' = RunLayers(_select_layers(layers), rg_registrations)
    /\ UNCHANGED <<rg_registrations, rg_next_order,
                   dep_vars, pm_vars, slot_vars, comp_vars, fl_vars, mg_vars, ic_vars>>

RgNext == RgRegister \/ RgRun

SpecRegistry == RgInit /\ [][RgNext]_vars

\* the position of a layer in the pipeline syntax, semantic, rm, opt
PipelinePosition(layer) ==
    CASE layer = "syntax" -> 1 [] layer = "semantic" -> 2 [] layer = "rm" -> 3
      [] layer = "opt" -> 4

\* r has to run before s
RunsBefore(r, s) ==
    \/ PipelinePosition(r.layer) < PipelinePosition(s.layer)
    \/ /\ r.layer = s.layer
       /\ \/ r.priority > s.priority
          \/ r.priority = s.priority /\ StrLess(r.name, s.name)
          \/ r.priority = s.priority /\ r.name = s.name /\ r.order < s.order

\* the registrations of the layers a run selects
Selected(layers) ==
    UNION {Range(rg_registrations[layer]) :
           layer \in IF layers = AllLayers THEN Range(_LAYER_ORDER)
                     ELSE Range(layers)}

\* C27: a run invokes the check of every registration of a selected layer
\* exactly once and no other, layer by layer in the order syntax, semantic,
\* rm, opt, and within a layer by descending priority, then ascending name,
\* then registration order.
C27_RunOrder ==
    rg_layers # NoRun =>
        /\ Range(rg_called) = Selected(rg_layers)
        /\ Len(rg_called) = Cardinality(Selected(rg_layers))
        /\ \A i \in 1..Len(rg_called) : \A j \in (i + 1)..Len(rg_called) :
            RunsBefore(rg_called[i], rg_called[j])

\* a run over two layers named against the pipeline order, which invoked
\* two checks of one layer, the later registered with the higher priority
\* first, and left out the check of an unselected layer
C27_Witness ==
    /\ rg_layers = <<"opt", "syntax">>
    /\ Len(rg_called) = 2
    /\ rg_called[1].order > rg_called[2].order
    /\ rg_called[1].layer = rg_called[2].layer
    /\ rg_called[1].priority > rg_called[2].priority
    /\ rg_registrations["rm"] # <<>>


(***************************************************************************)
(* The defensive fallback of dependency_order_for_archetypes               *)
(***************************************************************************)
\* C28: whenever detect_dependency_cycles returns no issue for the graph of
\* the input, the Kahn loop ends with every node emitted, and the issue
\* 'incomplete topological order' is never returned.
C28_FallbackUnreachable ==
    /\ IncompleteIssue \notin Range(dep_issues)
    /\ (dep_pc = "kahn" /\ kahn.ready = <<>>) =>
        /\ detect_dependency_cycles(graph) = <<>>
        /\ Len(kahn.order) = Len(graph.nodes)
        /\ Range(kahn.order) = Range(graph.nodes)
    /\ (dep_pc = "done" /\ detect_dependency_cycles(graph) = <<>>) =>
        /\ dep_issues = <<>>
        /\ Range(dep_order) = Range(graph.nodes)

\* the loop has ended on a graph without cycle that has a node whose parent
\* is in the graph and a node whose parent is not
C28_Witness ==
    /\ dep_pc = "kahn"
    /\ kahn.ready = <<>>
    /\ Len(kahn.order) = 2
    /\ \E n \in Range(graph.nodes) : InScopeDeps(graph, n) # <<>>
    /\ \E n \in Range(graph.nodes) : InScopeDeps(graph, n) # graph.edges[n]


(***************************************************************************)
(* Termination of compile_opt                                              *)
(***************************************************************************)
\* the ids flatten_specialisation_definition visits from id on, as long as
\* they are loaded, n of them at most
RECURSIVE VisitedFrom(_, _, _)
VisitedFrom(archs, id, n) ==
    IF n = 0 \/ id = None \/ RepoGet(archs, id) = NoObject THEN <<>>
    ELSE <<id>> \o VisitedFrom(archs, RepoGet(archs, id).parent_archetype_id, n - 1)

\* when the flattener is about to be entered, the chain of loaded ancestors
\* of the root ends within Len(repo) archetypes and lies within the scope
FlattenEnteredOnFiniteChain ==
    (comp_pc = "flatten" /\ comp_order # <<>>) =>
        LET chain == VisitedFrom(repo, comp_order[Len(comp_order)], Len(repo) + 1)
        IN  /\ Len(chain) <= Len(repo)
            /\ Range(chain) \subseteq IdsOf(scope)

\* the place of a position in Stages
StageNumber(pc) == CHOOSE i \in 1..Len(Stages) : Stages[i] = pc

\* C29: compile_opt terminates, by returning or by raising, for every
\* repository and template: every stage it runs takes it to a later position,
\* and the flattener is only entered on a root whose chain of ancestors is
\* finite and in scope, so that its recursion never runs into the
\* interpreter's limit.
C29_Terminates ==
    /\ <>(comp_pc \in {"done", "raised"})
    /\ [][StageNumber(comp_pc') > StageNumber(comp_pc)]_comp_pc
    /\ [](comp_pc = "raised" => "flatten" \notin ran)
    /\ []FlattenEnteredOnFiniteChain

\* a compilation that flattened a slot-selected root over its parent and
\* returned a template
C29_Witness ==
    /\ comp_pc = "done"
    /\ "flatten" \in ran
    /\ opt # NoObject
    /\ selected_ids # <<>>
    /\ RepoGet(repo, opt.root_archetype_id).parent_archetype_id \in IdsOf(scope)


(***************************************************************************)
(* The root of a compilation                                               *)
(***************************************************************************)
\* C30: the root archetype of a successful compilation is the last element
\* of component_archetype_ids and no archetype in scope specialises it; when
\* slot resolution selected ids, the root is one of them.  A compilation of
\* nothing has no root.
C30_RootIsSelectedLeaf ==
    (comp_pc = "done" /\ opt # NoObject) =>
        LET ids == opt.component_archetype_ids
            root == opt.root_archetype_id
        IN  IF ids = <<>> THEN root = None /\ selected_ids = <<>>
            ELSE /\ root = ids[Len(ids)]
                 /\ \A id \in ScopeIds : ParentIn(repo, id) # root
                 /\ selected_ids # <<>> => root \in Range(selected_ids)

\* two slots selected two archetypes, one of which brought its parent into
\* the scope; the root is a selected one and the parent is not
C30_Witness ==
    /\ comp_pc = "done"
    /\ opt # NoObject
    /\ Len(selected_ids) = 2
    /\ Len(opt.component_archetype_ids) = 3
    /\ opt.root_archetype_id \in Range(selected_ids)
    /\ \E id \in Range(opt.component_archetype_ids) :
          id \notin Range(selected_ids) /\ id # opt.root_archetype_id

=============================================================================
